---- MODULE Spec2Model ----
(***************************************************************************)
(* Werewolf game engine: the phase loop of GameEngine.run_game_loop, the   *)
(* night handlers, the night resolution, the vote tally and the hunter     *)
(* shot, over the players built by RoleAssigner.                           *)
(*                                                                         *)
(* The decision source of an actor (the language model's reply, the        *)
(* suspicion scores drawn by AIThinking, the console input, random.choice) *)
(* is the environment: a decision is any value the deciding code can       *)
(* return, which keeps the structural restrictions of that code (a reply   *)
(* is used only when it names a listed candidate, a fallback is a key of   *)
(* suspicion_levels, console input is re-asked until valid).               *)
(* BaseAIClient.generate_response catches every Exception and answers with *)
(* a fallback text, so AIPlayer.think and the choose_* methods return.     *)
(***************************************************************************)
EXTENDS Integers, Sequences, FiniteSets, TLC

\* ---------------------------------------------------------------- bounds
\* number of shuffle outcomes of role_list that Init draws from
NumShuffles == 2
\* highest id random.randint may give the human player
MaxHumanId == 2
\* a night actor or the hunter chooses among the MaxChoice lowest ids of its
\* legal candidates
MaxChoice == 2
\* a voter chooses among the MaxVoteChoice lowest ids of its legal targets
MaxVoteChoice == 2
\* the seer chooses among the MaxSeerChoice lowest ids of its legal candidates
MaxSeerChoice == 1
\* phases entered in a run (night 1, day 1, vote 1, night 2, ...): no phase
\* beyond the MaxPhases-th is started
MaxPhases == 4
\* highest id the resolver's NightActions argument names in SpecResolve
MaxInputId == 2
\* nights resolved in a row in SpecResolve
MaxNights == 2
\* players that process_player_death kills in a run of SpecManager
MaxDeaths == 4
\* highest player id a client of the manager names in SpecManager
MaxManagerId == 4
\* highest player id validate_player_action is called with and highest id a
\* client has marked dead or killed in SpecValidate
MaxValidateId == 4
\* highest player id process_player_death is called with in SpecOps
MaxOpsId == 1
\* records the calls of a run of SpecOps write to history
MaxRecords == 3
\* calls of advance_phase in a run of SpecOps
MaxAdvances == 3
\* create_players is called with num_players - MaxExtraPlayers ..
\* num_players + MaxExtraPlayers players in SpecAssign
MaxExtraPlayers == 1

\* ------------------------------------------------------ program constants
num_players == 9
None == -1

Ids == 0 .. (num_players - 1)

WEREWOLF == "WEREWOLF"
VILLAGER == "VILLAGER"
SEER == "SEER"
WITCH == "WITCH"
HUNTER == "HUNTER"
RoleType == {WEREWOLF, VILLAGER, SEER, WITCH, HUNTER}

CampWerewolf == "CAMP_WEREWOLF"
CampVillager == "CAMP_VILLAGER"

NIGHT == "NIGHT"
DAY == "DAY"
VOTE == "VOTE"

KILL == "KILL"
SAVE == "SAVE"
VOTE_ACTION == "VOTE_ACTION"


\* Optional[CampType] None, a missing key of seer_results, no exception raised
NoCamp == "None"
Absent == "absent"
NoError == "none"

\* Python truthiness of an Optional[int]: None and 0 are both falsy
Truthy(x) == x /= None /\ x /= 0

\* ------------------------------------------------------------ RoleAssigner
\* role_list before the shuffle, in the order of role_distribution
role_list == << SEER, WITCH, HUNTER, VILLAGER, VILLAGER, VILLAGER,
                WEREWOLF, WEREWOLF, WEREWOLF >>

\* outcomes of random.shuffle(role_list): permutations of the indices 1..9
Shuffles == << << 3, 4, 2, 1, 7, 5, 8, 6, 9 >>,
               << 7, 2, 4, 3, 1, 5, 8, 6, 9 >>,
               << 3, 7, 2, 1, 4, 8, 5, 9, 6 >>,
               << 2, 4, 8, 1, 3, 7, 5, 9, 6 >>,
               << 1, 2, 3, 4, 5, 6, 7, 8, 9 >> >>

\* assign_roles: player i takes the i-th role of the shuffled list
assign_roles(k) == [i \in Ids |-> role_list[Shuffles[k][i + 1]]]

\* ------------------------------------------------------------------ state
VARIABLES
  enable_ai_mode,      \* GameEngine.enable_ai_mode
  spectator_mode,      \* GameEngine.spectator_mode
  human_player_id,     \* GameEngine.human_player_id (None in spectator mode)
  role,                \* Player.role of every player
  alive,               \* Player.alive of every player
  has_antidote,        \* the witch's Player.has_antidote
  has_poison,          \* the witch's Player.has_poison
  used_antidote_night, \* the witch's Player.used_antidote_night
  used_poison_night,   \* the witch's Player.used_poison_night
  current_round,       \* GameState.current_round
  phase,               \* GameState.phase
  alive_players,       \* GameState.alive_players (a list)
  dead_players,        \* GameState.dead_players (a list)
  history,             \* GameState.history (a list of ActionRecord)
  seer_results,        \* GameState.seer_results
  voted_player,        \* GameState.voted_player
  game_over,           \* GameState.game_over
  winner,              \* GameState.winner
  gs_night_actions,    \* GameState.night_actions: << >> for None, else << NightActions >>
  night_actions,       \* the NightActions local to _process_night_phase
  witch_action,        \* the dict choose_witch_action returned this night: << >> or << dict >>
  vote_counts,         \* tally of the votes cast so far in _process_vote_phase
  voter_idx,           \* position of the vote loop in its alive_players snapshot
  error,               \* exception that left run_game_loop, or NoError
  returned,            \* what the last call of a win evaluator returned (None after other calls)
  created,             \* the Player list RoleAssigner built when it is run on its own
  shuffled,            \* role_list of assign_roles while it is shuffled
  shuffle_idx,         \* position of random.shuffle in role_list
  call,                \* the arguments of the last validate_player_action call: << >> or << record >>
  pc                   \* position of the control thread

vars == << enable_ai_mode, spectator_mode, human_player_id, role, alive,
           has_antidote, has_poison, used_antidote_night, used_poison_night,
           current_round, phase, alive_players, dead_players, history,
           seer_results, voted_player, game_over, winner, gs_night_actions,
           night_actions, witch_action, vote_counts, voter_idx, error, returned,
           created, shuffled, shuffle_idx, call, pc >>

\* what RoleAssigner works on when it is run on its own
assigner_vars == << created, shuffled, shuffle_idx >>

\* what the setup of a game fixes for the whole game
config == << enable_ai_mode, spectator_mode, human_player_id, role, assigner_vars, call >>
witch_vars == << has_antidote, has_poison, used_antidote_night, used_poison_night >>
death_vars == << alive, alive_players, dead_players, history >>
vote_vars == << vote_counts, voter_idx >>

\* NightActions(): every field None
NightActions == [werewolf_kill |-> None, seer_check |-> None, witch_save |-> None,
                 witch_poison |-> None, hunter_shoot |-> None]

\* ActionRecord(action_type, player_id, target_id, phase, round)
ActionRecord(t, actor, target, ph, rnd) ==
  [action_type |-> t, player_id |-> actor, target_id |-> target, phase |-> ph, round |-> rnd]

\* Player.is_ai as set by create_players
is_ai(p) == spectator_mode \/ p /= human_player_id

\* p in self.ai_players (_initialize_ai_players, run only in AI mode)
in_ai_players(p) == enable_ai_mode /\ is_ai(p)

\* the living players: [p for p in players if p.alive]
AliveIds == {p \in Ids : alive[p]}

\* the players with a role, dead or alive
AliveWithRole_Anyone(r) == {p \in Ids : role[p] = r}

\* the living players with a role: [p for p in players if p.alive and p.role == r]
AliveWithRole(r) == {p \in Ids : alive[p] /\ role[p] = r}

\* smallest element of a non-empty set of ids
MinId(S) == CHOOSE x \in S : \A y \in S : x <= y

\* the k lowest ids of S
RECURSIVE Lowest(_, _)
Lowest(S, k) ==
  IF k = 0 \/ S = {} THEN {}
  ELSE {MinId(S)} \cup Lowest(S \ {MinId(S)}, k - 1)

\* the choices an actor is given in this model
Candidates(S) == Lowest(S, MaxChoice)
VoteCandidates(S) == Lowest(S, MaxVoteChoice)
SeerCandidates(S) == Lowest(S, MaxSeerChoice)

\* the number of the phase ph of round rnd in the run
PhaseNo(rnd, ph) == 3 * (rnd - 1) + (IF ph = NIGHT THEN 1 ELSE IF ph = DAY THEN 2 ELSE 3)

\* ids in list order as a sequence
RECURSIVE SortedSeq(_)
SortedSeq(S) == IF S = {} THEN << >> ELSE << MinId(S) >> \o SortedSeq(S \ {MinId(S)})

\* list.remove(x) for x in the list
Remove(s, x) == SelectSeq(s, LAMBDA y : y /= x)

InSeq(s, x) == \E i \in 1 .. Len(s) : s[i] = x

\* vote_counts.get(target, 0) of an empty tally; None is a key when a voter
\* without any target is answered with None
NoVotes == [p \in Ids \cup {None} |-> 0]

\* GameEngine.__init__ followed by initialize_game
Construct ==
  /\ enable_ai_mode \in BOOLEAN
  /\ spectator_mode \in BOOLEAN
  /\ spectator_mode => enable_ai_mode
  /\ human_player_id \in (IF spectator_mode THEN {None} ELSE 0 .. MaxHumanId)
  /\ \E k \in 1 .. NumShuffles : role = assign_roles(k)
  /\ alive = [p \in Ids |-> TRUE]
  /\ has_antidote = TRUE
  /\ has_poison = TRUE
  /\ used_antidote_night = None
  /\ used_poison_night = None
  /\ current_round = 1
  /\ phase = NIGHT
  /\ alive_players = SortedSeq(Ids)
  /\ dead_players = << >>
  /\ history = << >>
  /\ seer_results = [p \in Ids |-> Absent]
  /\ voted_player = None
  /\ game_over = FALSE
  /\ winner = NoCamp
  /\ gs_night_actions = << >>
  /\ night_actions = NightActions
  /\ witch_action = << >>
  /\ vote_counts = NoVotes
  /\ voter_idx = 0
  /\ error = NoError
  /\ returned = NoCamp
  /\ created = << >>
  /\ shuffled = << >>
  /\ shuffle_idx = 0
  /\ call = << >>

\* the constructed game, about to enter run_game_loop
Init == Construct /\ pc = "loop"

\* ------------------------------------------------------ GameState.check_winner
\* check_winner where the werewolves win only with strictly more living
\* werewolves than living others
check_winner_StrictlyFewer(w, rl, al) ==
  LET alive_werewolf_count == Cardinality({p \in Ids : al[p] /\ rl[p] = WEREWOLF})
      alive_good_count == Cardinality({p \in Ids : al[p]}) - alive_werewolf_count
  IN IF w /= NoCamp THEN w
     ELSE IF alive_werewolf_count = 0 THEN CampVillager
     ELSE IF alive_good_count < alive_werewolf_count THEN CampWerewolf
     ELSE NoCamp

\* check_winner that knows the villagers' win only
check_winner_VillagersOnly(w, rl, al) ==
  LET alive_werewolf_count == Cardinality({p \in Ids : al[p] /\ rl[p] = WEREWOLF})
  IN IF w /= NoCamp THEN w
     ELSE IF alive_werewolf_count = 0 THEN CampVillager
     ELSE NoCamp

\* check_winner(players): the stored winner if there is one, else by the counts
check_winner(w, rl, al) ==
  LET alive_werewolf_count == Cardinality({p \in Ids : al[p] /\ rl[p] = WEREWOLF})
      alive_good_count == Cardinality({p \in Ids : al[p]}) - alive_werewolf_count
  IN IF w /= NoCamp THEN w
     ELSE IF alive_werewolf_count = 0 THEN CampVillager
     ELSE IF alive_good_count <= alive_werewolf_count THEN CampWerewolf
     ELSE NoCamp

\* ----------------------------------------------------------- run_game_loop
\* `if winner:` with the test always false: the loop never notices a winner
winner_found_Never(w) == FALSE

\* `if winner:` with the test always true: the loop ends on any verdict
winner_found_Always(w) == TRUE

\* `if winner:` on the Optional[CampType] check_winner returned
winner_found(w) == w /= NoCamp

\* top of the while loop: the winner check, then entry into _process_night_phase
\* up to its first decision (phase = NIGHT, a fresh NightActions)
LoopTop ==
  /\ pc = "loop"
  /\ ~game_over
  /\ LET w == check_winner(winner, role, alive)
     IN /\ returned' = w
        /\ IF winner_found(w)
           THEN /\ winner' = w
                /\ game_over' = TRUE
                /\ pc' = "done"
                /\ UNCHANGED << phase, night_actions, witch_action >>
           ELSE /\ PhaseNo(current_round, NIGHT) <= MaxPhases
                /\ phase' = NIGHT
                /\ night_actions' = NightActions
                /\ witch_action' = << >>
                /\ pc' = "werewolf"
                /\ UNCHANGED << winner, game_over >>
  /\ UNCHANGED << config, witch_vars, death_vars, vote_vars, current_round,
                  seer_results, voted_player, gs_night_actions, error >>

\* WerewolfAction without the `if not werewolves: return` guard
WerewolfAction_NoGuard ==
  /\ pc = "werewolf"
  /\ LET potential_targets == {p \in Ids : alive[p] /\ role[p] /= WEREWOLF}
     IN IF potential_targets = {}
        THEN UNCHANGED night_actions
        ELSE \E target_id \in Candidates(potential_targets) :
               night_actions' = [night_actions EXCEPT !.werewolf_kill = target_id]
  /\ pc' = "seer"
  /\ UNCHANGED << returned, witch_action, config, witch_vars, death_vars, vote_vars, current_round, phase,
                  seer_results, voted_player, game_over, winner, gs_night_actions, error >>

\* WerewolfAction choosing among all living players, werewolves included
WerewolfAction_AnyAlive ==
  /\ pc = "werewolf"
  /\ LET werewolves == AliveWithRole(WEREWOLF)
         potential_targets == {p \in Ids : alive[p]}
     IN IF werewolves = {} \/ potential_targets = {}
        THEN UNCHANGED night_actions
        ELSE \E target_id \in potential_targets :
               night_actions' = [night_actions EXCEPT !.werewolf_kill = target_id]
  /\ pc' = "seer"
  /\ UNCHANGED << returned, witch_action, config, witch_vars, death_vars, vote_vars, current_round, phase,
                  seer_results, voted_player, game_over, winner, gs_night_actions, error >>

\* _process_werewolf_action: the AI reply, its fallbacks and random.choice all
\* give a member of potential_targets
WerewolfAction ==
  /\ pc = "werewolf"
  /\ LET werewolves == AliveWithRole(WEREWOLF)
         potential_targets == {p \in Ids : alive[p] /\ role[p] /= WEREWOLF}
     IN IF werewolves = {} \/ potential_targets = {}
        THEN UNCHANGED night_actions
        ELSE \E target_id \in Candidates(potential_targets) :
               night_actions' = [night_actions EXCEPT !.werewolf_kill = target_id]
  /\ pc' = "seer"
  /\ UNCHANGED << returned, witch_action, config, witch_vars, death_vars, vote_vars, current_round, phase,
                  seer_results, voted_player, game_over, winner, gs_night_actions, error >>

\* SeerResult that reports every target as good
SeerResult_AlwaysGood(t) == "good"

\* the result string _process_seer_action stores for a target
SeerResult(t) == IF role[t] = WEREWOLF THEN "werewolf" ELSE "good"

\* _process_seer_action
SeerAction ==
  /\ pc = "seer"
  /\ LET seers == AliveWithRole(SEER)
     IN IF seers = {}
        THEN UNCHANGED << night_actions, seer_results >>
        ELSE LET seer == MinId(seers)
                 unknown_players == {p \in Ids : alive[p] /\ p /= seer}
             IN IF unknown_players = {}
                THEN UNCHANGED << night_actions, seer_results >>
                ELSE \E target_id \in SeerCandidates(unknown_players) :
                       /\ night_actions' = [night_actions EXCEPT !.seer_check = target_id]
                       /\ seer_results' = [seer_results EXCEPT ![target_id] = SeerResult(target_id)]
  /\ pc' = "witch"
  /\ UNCHANGED << returned, witch_action, config, witch_vars, death_vars, vote_vars, current_round, phase,
                  voted_player, game_over, winner, gs_night_actions, error >>

\* ---------------------------------------------------------------- the witch
\* AIPlayer._choose_witch_action: the save follows round 1 / save_tonight (which
\* _analyze_as_witch always sets), the poison names a key of suspicion_levels
\* (a living player other than the witch) when its score is high enough
choose_witch_action_inner(witch, killed_player, can_save, can_poison) ==
  { [save |-> (can_save /\ killed_player /= None), poison |-> q] :
      q \in {None} \cup (IF can_poison THEN Candidates(AliveIds \ {witch}) ELSE {}) }

\* AIPlayer.choose_witch_action: what it returns for an inner decision
choose_witch_action(action, killed_player, can_save, can_poison) ==
  [save |-> (Truthy(killed_player) /\ action.save /\ can_save),
   poison |-> (IF can_poison THEN action.poison ELSE None)]

\* apply_witch_action that trusts the request: no can_save / can_poison test
apply_witch_action_Trusting(wa, na, can_save, can_poison, st, rnd) ==
  IF wa.save
  THEN [na |-> [na EXCEPT !.witch_save = na.werewolf_kill],
        has_antidote |-> FALSE, used_antidote_night |-> rnd,
        has_poison |-> st.has_poison, used_poison_night |-> st.used_poison_night]
  ELSE IF Truthy(wa.poison)
  THEN [na |-> [na EXCEPT !.witch_poison = wa.poison],
        has_antidote |-> st.has_antidote, used_antidote_night |-> st.used_antidote_night,
        has_poison |-> FALSE, used_poison_night |-> rnd]
  ELSE [na |-> na,
        has_antidote |-> st.has_antidote, used_antidote_night |-> st.used_antidote_night,
        has_poison |-> st.has_poison, used_poison_night |-> st.used_poison_night]

\* apply_witch_action that leaves has_antidote set after a save
apply_witch_action_KeepAntidote(wa, na, can_save, can_poison, st, rnd) ==
  IF wa.save /\ can_save
  THEN [na |-> [na EXCEPT !.witch_save = na.werewolf_kill],
        has_antidote |-> st.has_antidote, used_antidote_night |-> rnd,
        has_poison |-> st.has_poison, used_poison_night |-> st.used_poison_night]
  ELSE IF Truthy(wa.poison) /\ can_poison
  THEN [na |-> [na EXCEPT !.witch_poison = wa.poison],
        has_antidote |-> st.has_antidote, used_antidote_night |-> st.used_antidote_night,
        has_poison |-> FALSE, used_poison_night |-> rnd]
  ELSE [na |-> na,
        has_antidote |-> st.has_antidote, used_antidote_night |-> st.used_antidote_night,
        has_poison |-> st.has_poison, used_poison_night |-> st.used_poison_night]

\* apply_witch_action whose save names the seer's target instead of the kill
apply_witch_action_SaveChecked(wa, na, can_save, can_poison, st, rnd) ==
  IF wa.save /\ can_save
  THEN [na |-> [na EXCEPT !.witch_save = na.seer_check],
        has_antidote |-> FALSE, used_antidote_night |-> rnd,
        has_poison |-> st.has_poison, used_poison_night |-> st.used_poison_night]
  ELSE IF Truthy(wa.poison) /\ can_poison
  THEN [na |-> [na EXCEPT !.witch_poison = wa.poison],
        has_antidote |-> st.has_antidote, used_antidote_night |-> st.used_antidote_night,
        has_poison |-> FALSE, used_poison_night |-> rnd]
  ELSE [na |-> na,
        has_antidote |-> st.has_antidote, used_antidote_night |-> st.used_antidote_night,
        has_poison |-> st.has_poison, used_poison_night |-> st.used_poison_night]

\* apply_witch_action with `if` in place of `elif`: a save does not stop the
\* poison
apply_witch_action_BothPotions(wa, na, can_save, can_poison, st, rnd) ==
  LET saves == wa.save /\ can_save
      poisons == Truthy(wa.poison) /\ can_poison
  IN [na |-> [na EXCEPT !.witch_save = IF saves THEN na.werewolf_kill ELSE @,
                        !.witch_poison = IF poisons THEN wa.poison ELSE @],
      has_antidote |-> IF saves THEN FALSE ELSE st.has_antidote,
      used_antidote_night |-> IF saves THEN rnd ELSE st.used_antidote_night,
      has_poison |-> IF poisons THEN FALSE ELSE st.has_poison,
      used_poison_night |-> IF poisons THEN rnd ELSE st.used_poison_night]

\* _process_witch_action, AI branch: the effect of a returned witch_action on
\* the night's record and the witch's potions
apply_witch_action(wa, na, can_save, can_poison, st, rnd) ==
  IF wa.save /\ can_save
  THEN [na |-> [na EXCEPT !.witch_save = na.werewolf_kill],
        has_antidote |-> FALSE, used_antidote_night |-> rnd,
        has_poison |-> st.has_poison, used_poison_night |-> st.used_poison_night]
  ELSE IF Truthy(wa.poison) /\ can_poison
  THEN [na |-> [na EXCEPT !.witch_poison = wa.poison],
        has_antidote |-> st.has_antidote, used_antidote_night |-> st.used_antidote_night,
        has_poison |-> FALSE, used_poison_night |-> rnd]
  ELSE [na |-> na,
        has_antidote |-> st.has_antidote, used_antidote_night |-> st.used_antidote_night,
        has_poison |-> st.has_poison, used_poison_night |-> st.used_poison_night]

\* _process_witch_action, the branch without an AI witch: save in round 1 only
simple_witch_action(na, can_save, st, rnd) ==
  IF rnd = 1 /\ can_save /\ Truthy(na.werewolf_kill)
  THEN [na |-> [na EXCEPT !.witch_save = na.werewolf_kill],
        has_antidote |-> FALSE, used_antidote_night |-> 1,
        has_poison |-> st.has_poison, used_poison_night |-> st.used_poison_night]
  ELSE [na |-> na,
        has_antidote |-> st.has_antidote, used_antidote_night |-> st.used_antidote_night,
        has_poison |-> st.has_poison, used_poison_night |-> st.used_poison_night]

WitchState == [has_antidote |-> has_antidote, used_antidote_night |-> used_antidote_night,
               has_poison |-> has_poison, used_poison_night |-> used_poison_night]

\* _process_witch_action
WitchAction ==
  /\ pc = "witch"
  /\ LET witches == AliveWithRole(WITCH)
     IN IF witches = {}
        THEN UNCHANGED << night_actions, witch_action, witch_vars >>
        ELSE LET witch == MinId(witches)
                 killed == night_actions.werewolf_kill
                 can_save == has_antidote /\ killed /= None
                 can_poison == has_poison
             IN IF in_ai_players(witch)
                THEN \E a \in choose_witch_action_inner(witch, killed, can_save, can_poison) :
                       LET wa == choose_witch_action(a, killed, can_save, can_poison)
                           r == apply_witch_action(wa, night_actions, can_save, can_poison,
                                                   WitchState, current_round)
                       IN /\ witch_action' = << wa >>
                          /\ night_actions' = r.na
                          /\ has_antidote' = r.has_antidote
                          /\ used_antidote_night' = r.used_antidote_night
                          /\ has_poison' = r.has_poison
                          /\ used_poison_night' = r.used_poison_night
                ELSE LET r == simple_witch_action(night_actions, can_save, WitchState, current_round)
                     IN /\ witch_action' = << >>
                        /\ night_actions' = r.na
                        /\ has_antidote' = r.has_antidote
                        /\ used_antidote_night' = r.used_antidote_night
                        /\ has_poison' = r.has_poison
                        /\ used_poison_night' = r.used_poison_night
  /\ pc' = "resolve"
  /\ UNCHANGED << returned, config, death_vars, vote_vars, current_round, phase, seer_results,
                  voted_player, game_over, winner, gs_night_actions, error >>

\* ------------------------------------------------- _resolve_night_actions
\* Deaths without the witch_save test: the antidote does not cancel the kill
Deaths_IgnoreSave(na) ==
  (IF Truthy(na.werewolf_kill) THEN << na.werewolf_kill >> ELSE << >>)
  \o (IF Truthy(na.witch_poison) THEN << na.witch_poison >> ELSE << >>)

\* Deaths in which a hunter killed by the werewolves takes the lowest other
\* living player along
Deaths_HunterRetaliates(na) ==
  (IF Truthy(na.werewolf_kill) /\ na.werewolf_kill /= na.witch_save
   THEN << na.werewolf_kill >> ELSE << >>)
  \o (IF Truthy(na.witch_poison) THEN << na.witch_poison >> ELSE << >>)
  \o (IF /\ Truthy(na.werewolf_kill)
          /\ na.werewolf_kill /= na.witch_save
          /\ role[na.werewolf_kill] = HUNTER
          /\ AliveIds \ {na.werewolf_kill, na.witch_poison} /= {}
       THEN << MinId(AliveIds \ {na.werewolf_kill, na.witch_poison}) >> ELSE << >>)

\* the deaths list built from the night's record
Deaths(na) ==
  (IF Truthy(na.werewolf_kill) /\ na.werewolf_kill /= na.witch_save
   THEN << na.werewolf_kill >> ELSE << >>)
  \o (IF Truthy(na.witch_poison) THEN << na.witch_poison >> ELSE << >>)

\* ApplyNightDeath without alive_players.remove
ApplyNightDeath_NoRemove(st, player_id, rnd) ==
  [st EXCEPT !.alive = [st.alive EXCEPT ![player_id] = FALSE],
             !.dead_players = Append(st.dead_players, player_id),
             !.history = Append(st.history, ActionRecord(KILL, 0, player_id, "night", rnd))]

\* one pass of the loop body over player_id; list.remove raises ValueError
\* when player_id is no longer in alive_players, after alive was cleared
ApplyNightDeath(st, player_id, rnd) ==
  IF ~InSeq(st.alive_players, player_id)
  THEN [st EXCEPT !.alive = [st.alive EXCEPT ![player_id] = FALSE],
                  !.error = "ValueError"]
  ELSE [st EXCEPT !.alive = [st.alive EXCEPT ![player_id] = FALSE],
                  !.alive_players = Remove(st.alive_players, player_id),
                  !.dead_players = Append(st.dead_players, player_id),
                  !.history = Append(st.history, ActionRecord(KILL, 0, player_id, "night", rnd))]

\* the for loop over deaths, left at the first exception
RECURSIVE ApplyNightDeaths(_, _, _)
ApplyNightDeaths(st, deaths, rnd) ==
  IF deaths = << >> \/ st.error /= NoError THEN st
  ELSE ApplyNightDeaths(ApplyNightDeath(st, Head(deaths), rnd), Tail(deaths), rnd)

DeathState == [alive |-> alive, alive_players |-> alive_players,
               dead_players |-> dead_players, history |-> history, error |-> NoError]

\* end of _process_night_phase (night_actions saved, _resolve_night_actions) and
\* the winner check of run_game_loop that follows it
ResolveNight ==
  /\ pc = "resolve"
  /\ gs_night_actions' = << night_actions >>
  /\ LET st == ApplyNightDeaths(DeathState, Deaths(night_actions), current_round)
         w == check_winner(winner, role, st.alive)
     IN /\ alive' = st.alive
        /\ alive_players' = st.alive_players
        /\ dead_players' = st.dead_players
        /\ history' = st.history
        /\ error' = st.error
        /\ IF st.error /= NoError
           THEN /\ pc' = "crashed"
                /\ UNCHANGED << winner, game_over, returned >>
           ELSE /\ returned' = w
                /\ IF winner_found(w)
                   THEN /\ winner' = w
                        /\ game_over' = TRUE
                        /\ pc' = "done"
                   ELSE /\ pc' = "day"
                        /\ UNCHANGED << winner, game_over >>
  /\ UNCHANGED << config, witch_vars, vote_vars, current_round, phase, seer_results,
                  voted_player, night_actions, witch_action >>

\* ---------------------------------------------------------- _process_day_phase
\* the speeches change no state
DayPhase ==
  /\ pc = "day"
  /\ PhaseNo(current_round, DAY) <= MaxPhases
  /\ phase' = DAY
  /\ pc' = "vote"
  /\ UNCHANGED << returned, config, witch_vars, death_vars, vote_vars, current_round, seer_results,
                  voted_player, game_over, winner, gs_night_actions, night_actions,
                  witch_action, error >>

\* --------------------------------------------------------- _process_vote_phase
\* the alive_players snapshot the vote loop runs over
Voters == SortedSeq(AliveIds)

\* entry into the vote phase: phase = VOTE, votes = {}
VoteBegin ==
  /\ pc = "vote"
  /\ PhaseNo(current_round, VOTE) <= MaxPhases
  /\ phase' = VOTE
  /\ vote_counts' = NoVotes
  /\ voter_idx' = 1
  /\ pc' = "voting"
  /\ UNCHANGED << returned, config, witch_vars, death_vars, current_round, seer_results,
                  voted_player, game_over, winner, gs_night_actions, night_actions,
                  witch_action, error >>

\* VoteTargets that lets a voter name itself
VoteTargets_AnyAlive(voter) == AliveIds

\* the targets a voter can end up voting for: choose_vote_target keeps a reply
\* only when it is in votable_players and falls back on a key of
\* suspicion_levels or on random.choice; the console input is re-asked until
\* it is such an id; the simple voter uses random.choice
VoteTargets(voter) == {p \in AliveIds : p /= voter}

\* one pass of the vote loop; votes is only read through votes.values(), so
\* the model keeps the count of each target
VoteCast ==
  /\ pc = "voting"
  /\ voter_idx <= Len(Voters)
  /\ LET voter == Voters[voter_idx]
         targets == VoteTargets(voter)
     IN IF targets /= {}
        THEN /\ \E target_id \in VoteCandidates(targets) :
                  vote_counts' = [vote_counts EXCEPT ![target_id] = @ + 1]
             /\ voter_idx' = voter_idx + 1
             /\ UNCHANGED << pc, error >>
        ELSE IF in_ai_players(voter)
        THEN /\ vote_counts' = [vote_counts EXCEPT ![None] = @ + 1]
             /\ voter_idx' = voter_idx + 1
             /\ UNCHANGED << pc, error >>
        ELSE /\ ~(~spectator_mode /\ voter = human_player_id)
             /\ error' = "IndexError"
             /\ pc' = "crashed"
             /\ UNCHANGED << vote_counts, voter_idx >>
  /\ UNCHANGED << returned, config, witch_vars, death_vars, current_round, phase, seer_results,
                  voted_player, game_over, winner, gs_night_actions, night_actions,
                  witch_action >>

\* max(vote_counts.values())
max_votes(vc) == CHOOSE m \in {vc[t] : t \in DOMAIN vc} : \A t \in DOMAIN vc : vc[t] <= m

\* eliminated_players taking the lowest count that was cast instead of the highest
eliminated_players_Lowest(vc) ==
  {t \in DOMAIN vc : vc[t] > 0 /\ \A u \in DOMAIN vc : vc[u] > 0 => vc[t] <= vc[u]}

\* eliminated_players with a tie broken in favour of the lowest id
eliminated_players_TieBreak(vc) ==
  LET top == {t \in DOMAIN vc : vc[t] > 0 /\ vc[t] = max_votes(vc)}
  IN IF top = {} THEN {} ELSE {MinId(top)}

\* eliminated_players: the targets holding the highest count
eliminated_players(vc) == {t \in DOMAIN vc : vc[t] > 0 /\ vc[t] = max_votes(vc)}

\* the execution without dead_players.append
vote_elimination_NoAppend(st, eliminated_id, rnd) ==
  IF eliminated_id = None THEN [st EXCEPT !.error = "StopIteration"]
  ELSE IF ~InSeq(st.alive_players, eliminated_id)
  THEN [st EXCEPT !.alive = [st.alive EXCEPT ![eliminated_id] = FALSE],
                  !.error = "ValueError"]
  ELSE [st EXCEPT !.alive = [st.alive EXCEPT ![eliminated_id] = FALSE],
                  !.alive_players = Remove(st.alive_players, eliminated_id),
                  !.history = Append(st.history, ActionRecord(VOTE_ACTION, 0, eliminated_id, "vote", rnd))]

\* the execution of eliminated_id
vote_elimination(st, eliminated_id, rnd) ==
  IF eliminated_id = None THEN [st EXCEPT !.error = "StopIteration"]
  ELSE IF ~InSeq(st.alive_players, eliminated_id)
  THEN [st EXCEPT !.alive = [st.alive EXCEPT ![eliminated_id] = FALSE],
                  !.error = "ValueError"]
  ELSE [st EXCEPT !.alive = [st.alive EXCEPT ![eliminated_id] = FALSE],
                  !.alive_players = Remove(st.alive_players, eliminated_id),
                  !.dead_players = Append(st.dead_players, eliminated_id),
                  !.history = Append(st.history, ActionRecord(VOTE_ACTION, 0, eliminated_id, "vote", rnd))]

\* the tally after the vote loop, and the execution
VoteTally ==
  /\ pc = "voting"
  /\ voter_idx > Len(Voters)
  /\ LET elim == eliminated_players(vote_counts)
     IN IF Cardinality(elim) = 1
        THEN LET eliminated_id == CHOOSE t \in elim : TRUE
                 st == vote_elimination(DeathState, eliminated_id, current_round)
             IN /\ alive' = st.alive
                /\ alive_players' = st.alive_players
                /\ dead_players' = st.dead_players
                /\ history' = st.history
                /\ error' = st.error
                /\ IF st.error /= NoError
                   THEN /\ pc' = "crashed"
                        /\ UNCHANGED voted_player
                   ELSE /\ voted_player' = eliminated_id
                        /\ pc' = IF role[eliminated_id] = HUNTER THEN "hunter" ELSE "incr"
        ELSE /\ pc' = "incr"
             /\ UNCHANGED << death_vars, voted_player, error >>
  /\ UNCHANGED << returned, config, witch_vars, vote_vars, current_round, phase, seer_results,
                  game_over, winner, gs_night_actions, night_actions, witch_action >>

\* ------------------------------------------------------- _process_hunter_shoot
\* HunterTargets that leaves the dead hunter itself among the targets
HunterTargets_WithSelf(hunter) == AliveIds \cup {hunter}

\* the targets the hunter can name: a validated console input, the
\* shoot_if_dead recommendation (a key of suspicion_levels), or random.choice
HunterTargets(hunter) ==
  IF ~spectator_mode /\ hunter = human_player_id THEN AliveIds
  ELSE IF in_ai_players(hunter) THEN AliveIds \ {hunter}
  ELSE AliveIds

\* hunter_kill that clears the flag but never moves the id between the lists
hunter_kill_NoMove(st, target_id) ==
  [st EXCEPT !.alive = [st.alive EXCEPT ![target_id] = FALSE]]

\* the shot: the target dies, nothing is recorded
hunter_kill(st, target_id) ==
  IF ~InSeq(st.alive_players, target_id)
  THEN [st EXCEPT !.alive = [st.alive EXCEPT ![target_id] = FALSE],
                  !.error = "ValueError"]
  ELSE [st EXCEPT !.alive = [st.alive EXCEPT ![target_id] = FALSE],
                  !.alive_players = Remove(st.alive_players, target_id),
                  !.dead_players = Append(st.dead_players, target_id)]

HunterShoot ==
  /\ pc = "hunter"
  /\ LET hunter == voted_player
         targets == HunterTargets(hunter)
     IN IF targets /= {}
        THEN \E target_id \in Candidates(targets) :
               LET st == hunter_kill(DeathState, target_id)
               IN /\ alive' = st.alive
                  /\ alive_players' = st.alive_players
                  /\ dead_players' = st.dead_players
                  /\ history' = st.history
                  /\ error' = st.error
                  /\ pc' = IF st.error /= NoError THEN "crashed" ELSE "incr"
        ELSE /\ ~(~spectator_mode /\ hunter = human_player_id)
             /\ error' = IF in_ai_players(hunter) THEN "StopIteration" ELSE "IndexError"
             /\ pc' = "crashed"
             /\ UNCHANGED death_vars
  /\ UNCHANGED << returned, config, witch_vars, vote_vars, current_round, phase, seer_results,
                  voted_player, game_over, winner, gs_night_actions, night_actions,
                  witch_action >>

\* run_game_loop after the vote phase: current_round += 1, back to the loop test
NextRound ==
  /\ pc = "incr"
  /\ current_round' = current_round + 1
  /\ vote_counts' = NoVotes
  /\ voter_idx' = 0
  /\ pc' = "loop"
  /\ UNCHANGED << returned, config, witch_vars, death_vars, phase, seer_results, voted_player,
                  game_over, winner, gs_night_actions, night_actions, witch_action, error >>

Next ==
  \/ LoopTop
  \/ WerewolfAction
  \/ SeerAction
  \/ WitchAction
  \/ ResolveNight
  \/ DayPhase
  \/ VoteBegin
  \/ VoteCast
  \/ VoteTally
  \/ HunterShoot
  \/ NextRound

Spec == Init /\ [][Next]_vars

\* ------------------------------------------- _resolve_night_actions on its own
\* the NightActions arguments the resolver is given: every record that meets
\* the contract of its fields (the kill a living non-werewolf, the save the
\* kill or None, the poison a living player or None)
InputIds == 0 .. MaxInputId

NightInputs ==
  { [werewolf_kill |-> k, seer_check |-> None, witch_save |-> s,
     witch_poison |-> q, hunter_shoot |-> None] :
      k \in {None} \cup {p \in InputIds : alive[p] /\ role[p] /= WEREWOLF},
      s \in {None} \cup InputIds,
      q \in {None} \cup {p \in InputIds : alive[p]} }

InitResolve == Construct /\ pc = "night_input"

\* a night's record is handed to the resolver
NightInput ==
  /\ pc = "night_input"
  /\ current_round <= MaxNights
  /\ \E na \in NightInputs :
       /\ na.witch_save \in {None, na.werewolf_kill}
       /\ night_actions' = na
  /\ pc' = "night_resolve"
  /\ UNCHANGED << returned, config, witch_vars, death_vars, vote_vars, current_round, phase,
                  seer_results, voted_player, game_over, winner, gs_night_actions,
                  witch_action, error >>

\* _resolve_night_actions applied to it, then the next night
ResolveOnly ==
  /\ pc = "night_resolve"
  /\ gs_night_actions' = << night_actions >>
  /\ LET st == ApplyNightDeaths(DeathState, Deaths(night_actions), current_round)
     IN /\ alive' = st.alive
        /\ alive_players' = st.alive_players
        /\ dead_players' = st.dead_players
        /\ history' = st.history
        /\ error' = st.error
        /\ pc' = IF st.error /= NoError THEN "crashed" ELSE "night_input"
  /\ current_round' = current_round + 1
  /\ UNCHANGED << returned, config, witch_vars, vote_vars, phase, seer_results, voted_player,
                  game_over, winner, night_actions, witch_action >>

NextResolve == NightInput \/ ResolveOnly

SpecResolve == InitResolve /\ [][NextResolve]_vars

\* ------------------------------------------- _process_witch_action on its own
\* The witch's actor here is any object with a choose_witch_action method: the
\* dict it returns is any request, eligible or not, night after night.
WitchRequests == [save : BOOLEAN, poison : {None} \cup InputIds]

InitWitch == Construct /\ pc = "witch_night"

\* a night begins: a fresh NightActions holding the werewolves' decision
WitchNight ==
  /\ pc = "witch_night"
  /\ current_round <= MaxNights
  /\ \E k \in {None} \cup {p \in InputIds : alive[p] /\ role[p] /= WEREWOLF} :
       night_actions' = [NightActions EXCEPT !.werewolf_kill = k]
  /\ witch_action' = << >>
  /\ phase' = NIGHT
  /\ pc' = "witch_request"
  /\ UNCHANGED << returned, config, witch_vars, death_vars, vote_vars, current_round,
                  seer_results, voted_player, game_over, winner, gs_night_actions, error >>

\* _process_witch_action with the request the actor returned, then the next round
WitchRequest ==
  /\ pc = "witch_request"
  /\ LET witches == AliveWithRole(WITCH)
         witch == MinId(witches)
         killed == night_actions.werewolf_kill
         can_save == has_antidote /\ killed /= None
         can_poison == has_poison
     IN IF in_ai_players(witch)
        THEN \E wa \in WitchRequests :
               LET r == apply_witch_action(wa, night_actions, can_save, can_poison,
                                           WitchState, current_round)
               IN /\ witch_action' = << wa >>
                  /\ night_actions' = r.na
                  /\ has_antidote' = r.has_antidote
                  /\ used_antidote_night' = r.used_antidote_night
                  /\ has_poison' = r.has_poison
                  /\ used_poison_night' = r.used_poison_night
        ELSE LET r == simple_witch_action(night_actions, can_save, WitchState, current_round)
             IN /\ witch_action' = << >>
                /\ night_actions' = r.na
                /\ has_antidote' = r.has_antidote
                /\ used_antidote_night' = r.used_antidote_night
                /\ has_poison' = r.has_poison
                /\ used_poison_night' = r.used_poison_night
  /\ current_round' = current_round + 1
  /\ pc' = "witch_night"
  /\ UNCHANGED << returned, config, death_vars, vote_vars, phase, seer_results,
                  voted_player, game_over, winner, gs_night_actions, error >>

NextWitch == WitchNight \/ WitchRequest

SpecWitch == InitWitch /\ [][NextWitch]_vars

\* ------------------------------------------------ the loop with any actor
\* In SpecActor an AI player's decision is what any implementation of the
\* choose_* / generate_speech methods can produce: the call raises, returns
\* None, or returns an id, which may be a legal candidate or the actor's own
\* id. Players that are not in ai_players decide as in Spec.
ActorOutcomes == {"raise", "none", "reply"}

\* the ids an actor may reply with: the legal choices and its own id
ActorIds(legal, self) == Candidates(legal) \cup {self}

\* _process_werewolf_action: an exception and None are both answered with
\* random.choice(potential_targets); an id is taken as it is
WerewolfActor ==
  /\ pc = "werewolf"
  /\ LET werewolves == AliveWithRole(WEREWOLF)
         potential_targets == {p \in Ids : alive[p] /\ role[p] /= WEREWOLF}
     IN IF werewolves = {} \/ potential_targets = {}
        THEN UNCHANGED night_actions
        ELSE IF in_ai_players(MinId(werewolves))
        THEN \E outcome \in ActorOutcomes :
               \E target_id \in (IF outcome = "reply"
                                 THEN ActorIds(potential_targets, MinId(werewolves))
                                 ELSE Candidates(potential_targets)) :
                 night_actions' = [night_actions EXCEPT !.werewolf_kill = target_id]
        ELSE \E target_id \in Candidates(potential_targets) :
               night_actions' = [night_actions EXCEPT !.werewolf_kill = target_id]
  /\ pc' = "seer"
  /\ UNCHANGED << returned, witch_action, config, witch_vars, death_vars, vote_vars,
                  current_round, phase, seer_results, voted_player, game_over, winner,
                  gs_night_actions, error >>

\* _process_seer_action: the same try / except / None handling
SeerActor ==
  /\ pc = "seer"
  /\ LET seers == AliveWithRole(SEER)
     IN IF seers = {}
        THEN UNCHANGED << night_actions, seer_results >>
        ELSE LET seer == MinId(seers)
                 unknown_players == {p \in Ids : alive[p] /\ p /= seer}
             IN IF unknown_players = {}
                THEN UNCHANGED << night_actions, seer_results >>
                ELSE \E outcome \in ActorOutcomes :
                       \E target_id \in (IF outcome = "reply" /\ in_ai_players(seer)
                                         THEN SeerCandidates(unknown_players) \cup {seer}
                                         ELSE SeerCandidates(unknown_players)) :
                         /\ night_actions' = [night_actions EXCEPT !.seer_check = target_id]
                         /\ seer_results' = [seer_results EXCEPT ![target_id] = SeerResult(target_id)]
  /\ pc' = "witch"
  /\ UNCHANGED << returned, witch_action, config, witch_vars, death_vars, vote_vars,
                  current_round, phase, voted_player, game_over, winner, gs_night_actions,
                  error >>

\* _process_witch_action: the call is not guarded, and None has no .get
WitchActor ==
  /\ pc = "witch"
  /\ LET witches == AliveWithRole(WITCH)
     IN IF witches = {}
        THEN /\ pc' = "resolve"
             /\ UNCHANGED << night_actions, witch_action, witch_vars, error >>
        ELSE LET witch == MinId(witches)
                 killed == night_actions.werewolf_kill
                 can_save == has_antidote /\ killed /= None
                 can_poison == has_poison
             IN IF in_ai_players(witch)
                THEN \E outcome \in ActorOutcomes :
                       IF outcome = "reply"
                       THEN \E wa \in WitchRequests :
                              LET r == apply_witch_action(wa, night_actions, can_save,
                                                          can_poison, WitchState, current_round)
                              IN /\ witch_action' = << wa >>
                                 /\ night_actions' = r.na
                                 /\ has_antidote' = r.has_antidote
                                 /\ used_antidote_night' = r.used_antidote_night
                                 /\ has_poison' = r.has_poison
                                 /\ used_poison_night' = r.used_poison_night
                                 /\ pc' = "resolve"
                                 /\ UNCHANGED error
                       ELSE /\ error' = IF outcome = "raise" THEN "ActorError" ELSE "AttributeError"
                            /\ pc' = "crashed"
                            /\ UNCHANGED << night_actions, witch_action, witch_vars >>
                ELSE LET r == simple_witch_action(night_actions, can_save, WitchState, current_round)
                     IN /\ witch_action' = << >>
                        /\ night_actions' = r.na
                        /\ has_antidote' = r.has_antidote
                        /\ used_antidote_night' = r.used_antidote_night
                        /\ has_poison' = r.has_poison
                        /\ used_poison_night' = r.used_poison_night
                        /\ pc' = "resolve"
                        /\ UNCHANGED error
  /\ UNCHANGED << returned, config, death_vars, vote_vars, current_round, phase, seer_results,
                  voted_player, game_over, winner, gs_night_actions >>

\* _process_day_phase: generate_speech of a living AI player is not guarded
DayActor ==
  /\ pc = "day"
  /\ PhaseNo(current_round, DAY) <= MaxPhases
  /\ phase' = DAY
  /\ \/ /\ pc' = "vote"
        /\ UNCHANGED error
     \/ /\ \E p \in AliveIds : in_ai_players(p)
        /\ error' = "ActorError"
        /\ pc' = "crashed"
  /\ UNCHANGED << returned, config, witch_vars, death_vars, vote_vars, current_round,
                  seer_results, voted_player, game_over, winner, gs_night_actions,
                  night_actions, witch_action >>

\* one pass of the vote loop: choose_vote_target is not guarded and what it
\* returns is stored in votes as it is (here None or a legal target)
VoteActor ==
  /\ pc = "voting"
  /\ voter_idx <= Len(Voters)
  /\ LET voter == Voters[voter_idx]
         targets == VoteTargets(voter)
     IN IF in_ai_players(voter)
        THEN \E outcome \in ActorOutcomes :
               IF outcome = "raise"
               THEN /\ error' = "ActorError"
                    /\ pc' = "crashed"
                    /\ UNCHANGED << vote_counts, voter_idx >>
               ELSE /\ \E target_id \in (IF outcome = "none" THEN {None}
                                          ELSE VoteCandidates(targets)) :
                         vote_counts' = [vote_counts EXCEPT ![target_id] = @ + 1]
                    /\ voter_idx' = voter_idx + 1
                    /\ UNCHANGED << pc, error >>
        ELSE IF targets /= {}
        THEN /\ \E target_id \in VoteCandidates(targets) :
                  vote_counts' = [vote_counts EXCEPT ![target_id] = @ + 1]
             /\ voter_idx' = voter_idx + 1
             /\ UNCHANGED << pc, error >>
        ELSE /\ ~(~spectator_mode /\ voter = human_player_id)
             /\ error' = "IndexError"
             /\ pc' = "crashed"
             /\ UNCHANGED << vote_counts, voter_idx >>
  /\ UNCHANGED << returned, config, witch_vars, death_vars, current_round, phase,
                  seer_results, voted_player, game_over, winner, gs_night_actions,
                  night_actions, witch_action >>

\* _process_hunter_shoot: choose_hunter_target is not guarded, and the id it
\* returns is looked up with next(...), which raises for None
HunterActor ==
  /\ pc = "hunter"
  /\ LET hunter == voted_player
     IN IF in_ai_players(hunter) /\ ~(~spectator_mode /\ hunter = human_player_id)
        THEN \E outcome \in ActorOutcomes :
               IF outcome = "reply"
               THEN \E target_id \in ActorIds(AliveIds, hunter) :
                      LET st == hunter_kill(DeathState, target_id)
                      IN /\ alive' = st.alive
                         /\ alive_players' = st.alive_players
                         /\ dead_players' = st.dead_players
                         /\ history' = st.history
                         /\ error' = st.error
                         /\ pc' = IF st.error /= NoError THEN "crashed" ELSE "incr"
               ELSE /\ error' = IF outcome = "raise" THEN "ActorError" ELSE "StopIteration"
                    /\ pc' = "crashed"
                    /\ UNCHANGED death_vars
        ELSE /\ HunterTargets(hunter) /= {}
             /\ \E target_id \in Candidates(HunterTargets(hunter)) :
                  LET st == hunter_kill(DeathState, target_id)
                  IN /\ alive' = st.alive
                     /\ alive_players' = st.alive_players
                     /\ dead_players' = st.dead_players
                     /\ history' = st.history
                     /\ error' = st.error
                     /\ pc' = IF st.error /= NoError THEN "crashed" ELSE "incr"
  /\ UNCHANGED << returned, config, witch_vars, vote_vars, current_round, phase, seer_results,
                  voted_player, game_over, winner, gs_night_actions, night_actions,
                  witch_action >>

NextActor ==
  \/ LoopTop
  \/ WerewolfActor
  \/ SeerActor
  \/ WitchActor
  \/ ResolveNight
  \/ DayActor
  \/ VoteBegin
  \/ VoteActor
  \/ VoteTally
  \/ HunterActor
  \/ NextRound

SpecActor == Init /\ [][NextActor]_vars

\* --------------------------------------------------------- GameStateManager
\* The manager owns players and a GameState of its own; role, alive and the
\* GameState variables stand for them in SpecManager, whose steps are the
\* calls a client makes on the manager, in any order.

\* check_victory_conditions with `<` in place of `<=`
check_victory_conditions_StrictlyFewer(rl, al) ==
  LET alive_werewolves == {p \in Ids : al[p] /\ rl[p] = WEREWOLF}
      alive_good_count == Cardinality({p \in Ids : al[p] /\ rl[p] /= WEREWOLF})
  IN IF Cardinality(alive_werewolves) = 0 THEN CampVillager
     ELSE IF alive_good_count < Cardinality(alive_werewolves) THEN CampWerewolf
     ELSE NoCamp

\* GameStateManager.check_victory_conditions: no look at the stored winner
check_victory_conditions(rl, al) ==
  LET alive_werewolves == {p \in Ids : al[p] /\ rl[p] = WEREWOLF}
      alive_good_count == Cardinality({p \in Ids : al[p] /\ rl[p] /= WEREWOLF})
  IN IF Cardinality(alive_werewolves) = 0 THEN CampVillager
     ELSE IF alive_good_count <= Cardinality(alive_werewolves) THEN CampWerewolf
     ELSE NoCamp

\* the death_cause arguments: one recorded as KILL, one as SAVE
DeathCauses == {"werewolf", "hunter"}

\* process_player_death that flips the alive flag: a second call for a dead
\* player brings it back
process_player_death_Toggle(st, player_id, death_cause, ph, rnd) ==
  IF player_id \in Ids /\ st.alive[player_id]
  THEN [st EXCEPT
          !.alive = [st.alive EXCEPT ![player_id] = FALSE],
          !.alive_players = IF InSeq(st.alive_players, player_id)
                            THEN Remove(st.alive_players, player_id)
                            ELSE st.alive_players,
          !.dead_players = Append(st.dead_players, player_id),
          !.history = Append(st.history,
                             ActionRecord(IF death_cause \in {"werewolf", "vote", "poison"}
                                          THEN KILL ELSE SAVE,
                                          0, player_id, ph, rnd))]
  ELSE IF player_id \in Ids
  THEN [st EXCEPT
          !.alive = [st.alive EXCEPT ![player_id] = TRUE],
          !.alive_players = Append(st.alive_players, player_id),
          !.dead_players = Remove(st.dead_players, player_id)]
  ELSE st

\* process_player_death that puts its record at the head of history
process_player_death_Prepend(st, player_id, death_cause, ph, rnd) ==
  IF player_id \in Ids /\ st.alive[player_id]
  THEN [st EXCEPT
          !.alive = [st.alive EXCEPT ![player_id] = FALSE],
          !.alive_players = IF InSeq(st.alive_players, player_id)
                            THEN Remove(st.alive_players, player_id)
                            ELSE st.alive_players,
          !.dead_players = Append(st.dead_players, player_id),
          !.history = << ActionRecord(IF death_cause \in {"werewolf", "vote", "poison"}
                                      THEN KILL ELSE SAVE,
                                      0, player_id, ph, rnd) >> \o st.history]
  ELSE st

\* GameStateManager.process_player_death on the manager's state st
process_player_death(st, player_id, death_cause, ph, rnd) ==
  IF player_id \in Ids /\ st.alive[player_id]
  THEN [st EXCEPT
          !.alive = [st.alive EXCEPT ![player_id] = FALSE],
          !.alive_players = IF InSeq(st.alive_players, player_id)
                            THEN Remove(st.alive_players, player_id)
                            ELSE st.alive_players,
          !.dead_players = Append(st.dead_players, player_id),
          !.history = Append(st.history,
                             ActionRecord(IF death_cause \in {"werewolf", "vote", "poison"}
                                          THEN KILL ELSE SAVE,
                                          0, player_id, ph, rnd))]
  ELSE st

\* initialize_game of the manager: the players of RoleAssigner.create_players()
\* (the human id it returns is dropped) and a fresh GameState
InitManager == Construct /\ ~enable_ai_mode /\ human_player_id = 0 /\ pc = "manager"

ManagerPcs == {"manager", "check_winner", "check_victory_conditions"}

\* a call of process_player_death
ProcessPlayerDeath ==
  /\ pc \in ManagerPcs
  /\ Len(dead_players) < MaxDeaths
  /\ \E player_id \in 0 .. MaxManagerId, death_cause \in DeathCauses :
       LET st == process_player_death(DeathState, player_id, death_cause, phase, current_round)
       IN /\ alive' = st.alive
          /\ alive_players' = st.alive_players
          /\ dead_players' = st.dead_players
          /\ history' = st.history
  /\ returned' = NoCamp
  /\ pc' = "manager"
  /\ UNCHANGED << config, witch_vars, vote_vars, current_round, phase, seer_results,
                  voted_player, game_over, winner, gs_night_actions, night_actions,
                  witch_action, error >>

\* a call of end_game with the camp the manager's evaluator reports
EndGame ==
  /\ pc \in ManagerPcs
  /\ check_victory_conditions(role, alive) /= NoCamp
  /\ game_over' = TRUE
  /\ winner' = check_victory_conditions(role, alive)
  /\ returned' = NoCamp
  /\ pc' = "manager"
  /\ UNCHANGED << config, witch_vars, death_vars, vote_vars, current_round, phase,
                  seer_results, voted_player, gs_night_actions, night_actions,
                  witch_action, error >>

\* a call of check_victory_conditions
CheckVictoryConditions ==
  /\ pc \in ManagerPcs
  /\ returned' = check_victory_conditions(role, alive)
  /\ pc' = "check_victory_conditions"
  /\ UNCHANGED << config, witch_vars, death_vars, vote_vars, current_round, phase,
                  seer_results, voted_player, game_over, winner, gs_night_actions,
                  night_actions, witch_action, error >>

\* a call of game_state.check_winner(players) on the manager's state
CheckWinner ==
  /\ pc \in ManagerPcs
  /\ returned' = check_winner(winner, role, alive)
  /\ pc' = "check_winner"
  /\ UNCHANGED << config, witch_vars, death_vars, vote_vars, current_round, phase,
                  seer_results, voted_player, game_over, winner, gs_night_actions,
                  night_actions, witch_action, error >>

NextManager == ProcessPlayerDeath \/ EndGame \/ CheckVictoryConditions \/ CheckWinner

SpecManager == InitManager /\ [][NextManager]_vars

\* ------------------------------------------------- the win evaluators on their own
\* the players argument of the evaluators: any alive flags over the assigned
\* roles, with the lists of the GameState in step with them
WinInput ==
  /\ pc \in ManagerPcs
  /\ \E al \in [Ids -> BOOLEAN] :
       /\ alive' = al
       /\ alive_players' = SortedSeq({p \in Ids : al[p]})
       /\ dead_players' = SortedSeq({p \in Ids : ~al[p]})
  /\ returned' = NoCamp
  /\ pc' = "manager"
  /\ UNCHANGED << config, witch_vars, vote_vars, history, current_round, phase, seer_results,
                  voted_player, game_over, winner, gs_night_actions, night_actions,
                  witch_action, error >>

NextWin == WinInput \/ CheckWinner \/ CheckVictoryConditions

SpecWin == InitManager /\ [][NextWin]_vars

\* ------------------------------------- the manager's operations during a game
\* SpecOps: the calls that change the manager's game while it is played, in
\* any order. night_actions stands for GameStateManager.night_actions, which no
\* method of the manager fills. initialize_game and reset_game_state start
\* another game and are not among them.
InitOps == Construct /\ ~enable_ai_mode /\ human_player_id = 0 /\ pc = "ops"

\* a call of process_player_death
OpsDeath ==
  /\ pc = "ops"
  /\ Len(history) < MaxRecords
  /\ \E player_id \in 0 .. MaxOpsId, death_cause \in DeathCauses :
       LET st == process_player_death(DeathState, player_id, death_cause, phase, current_round)
       IN /\ alive' = st.alive
          /\ alive_players' = st.alive_players
          /\ dead_players' = st.dead_players
          /\ history' = st.history
  /\ UNCHANGED << returned, config, witch_vars, vote_vars, current_round, phase, seer_results,
                  voted_player, game_over, winner, gs_night_actions, night_actions,
                  witch_action, error, pc >>

\* the (action_type, player_id, target_id) arguments of record_action
RecordArgs == { [action_type |-> VOTE_ACTION, player_id |-> 1, target_id |-> 2],
                [action_type |-> SAVE, player_id |-> 2, target_id |-> None] }

\* a call of record_action
RecordAction ==
  /\ pc = "ops"
  /\ Len(history) < MaxRecords
  /\ \E a \in RecordArgs :
       history' = Append(history, ActionRecord(a.action_type, a.player_id, a.target_id,
                                                phase, current_round))
  /\ UNCHANGED << returned, config, witch_vars, vote_vars, alive, alive_players, dead_players,
                  current_round, phase, seer_results, voted_player, game_over, winner,
                  gs_night_actions, night_actions, witch_action, error, pc >>

\* get_next_phase: the phase after ph; leaving VOTE also increments the round
get_next_phase(ph, rnd) ==
  IF ph = VOTE THEN [phase |-> NIGHT, current_round |-> rnd + 1]
  ELSE [phase |-> (IF ph = NIGHT THEN DAY ELSE VOTE), current_round |-> rnd]

\* a call of advance_phase
AdvancePhase ==
  /\ pc = "ops"
  /\ PhaseNo(current_round, phase) <= MaxAdvances
  /\ LET n == get_next_phase(phase, current_round)
     IN /\ phase' = n.phase
        /\ current_round' = n.current_round
        /\ night_actions' = IF n.phase = NIGHT THEN NightActions ELSE night_actions
  /\ UNCHANGED << returned, config, witch_vars, vote_vars, death_vars, seer_results,
                  voted_player, game_over, winner, gs_night_actions, witch_action, error, pc >>

NextOps == OpsDeath \/ RecordAction \/ AdvancePhase

SpecOps == InitOps /\ [][NextOps]_vars

\* ------------------------------------------ the engine's game or the manager's
\* a run is either a game of the engine or a game kept by a manager
InitAny == Init \/ InitOps

NextAny == Next \/ NextOps

SpecAny == InitAny /\ [][NextAny]_vars

\* --------------------------------------------- the manager's phase operations
\* a call of get_next_phase on its own: the phase it returns is dropped, the
\* increment of current_round it makes when the phase is VOTE stays
GetNextPhase ==
  /\ pc = "ops"
  /\ PhaseNo(current_round, phase) <= MaxAdvances
  /\ current_round' = get_next_phase(phase, current_round).current_round
  /\ UNCHANGED << returned, config, witch_vars, vote_vars, death_vars, phase, seer_results,
                  voted_player, game_over, winner, gs_night_actions, night_actions,
                  witch_action, error, pc >>

NextPhase == NextOps \/ GetNextPhase

SpecPhase == InitOps /\ [][NextPhase]_vars

\* ------------------------------------------- validate_player_action on its own
\* the action_type strings the method knows
ActionNames == {"kill", "check", "save", "poison", "vote"}

\* GameStateManager.validate_player_action on players (rl, al), phase ph,
\* night_actions.werewolf_kill wk and game_state.witch_saved ws; the result is
\* the truth value of what the method returns (a missing target gives None)
validate_player_action(rl, al, ph, wk, ws, player_id, action_type, target_id) ==
  IF player_id \notin Ids \/ ~al[player_id] THEN FALSE
  ELSE IF ph = NIGHT
  THEN IF rl[player_id] = WEREWOLF /\ action_type = "kill"
       THEN target_id \in Ids /\ al[target_id] /\ rl[target_id] /= WEREWOLF
       ELSE IF rl[player_id] = SEER /\ action_type = "check"
       THEN target_id \in Ids /\ al[target_id] /\ target_id /= player_id
       ELSE IF rl[player_id] = WITCH /\ action_type \in {"save", "poison"}
       THEN IF action_type = "save"
            THEN target_id = wk /\ ~InSeq(ws, target_id)
            ELSE target_id \in Ids /\ al[target_id]
       ELSE FALSE
  ELSE IF ph = VOTE /\ action_type = "vote"
  THEN target_id \in Ids /\ al[target_id] /\ target_id /= player_id
  ELSE FALSE

\* bool as kept in returned
BoolName(b) == IF b THEN "True" ELSE "False"

InitValidate == Construct /\ ~enable_ai_mode /\ human_player_id = 0 /\ pc = "validate"

\* the state a client has brought the manager's game to: some players dead,
\* a phase, the night's kill and the witch's potions
ValidateInput ==
  /\ pc = "validate"
  /\ \E D \in SUBSET (0 .. MaxValidateId) :
       /\ Cardinality(D) <= 2
       /\ alive' = [p \in Ids |-> p \notin D]
       /\ alive_players' = SortedSeq(Ids \ D)
       /\ dead_players' = SortedSeq(D)
  /\ phase' \in {NIGHT, DAY, VOTE}
  /\ \E wk \in {None} \cup (0 .. MaxValidateId) :
       night_actions' = [NightActions EXCEPT !.werewolf_kill = wk]
  /\ has_antidote' \in BOOLEAN
  /\ has_poison' \in BOOLEAN
  /\ pc' = "validate_call"
  /\ UNCHANGED << returned, config, used_antidote_night, used_poison_night, vote_vars,
                  history, current_round, seer_results, voted_player, game_over, winner,
                  gs_night_actions, witch_action, error >>

\* a call of validate_player_action; nothing of the manager fills
\* game_state.witch_saved, it is the empty list or what a client put there
ValidateCall ==
  /\ pc = "validate_call"
  /\ \E player_id \in (0 .. MaxValidateId) \cup {num_players},
         action_type \in ActionNames,
         target_id \in (0 .. MaxValidateId) \cup {None},
         ws \in {<< >>, << night_actions.werewolf_kill >>} :
       /\ call' = << [player_id |-> player_id, action_type |-> action_type,
                      target_id |-> target_id, witch_saved |-> ws] >>
       /\ returned' = BoolName(validate_player_action(role, alive, phase,
                                  night_actions.werewolf_kill, ws,
                                  player_id, action_type, target_id))
  /\ pc' = "validated"
  /\ UNCHANGED << enable_ai_mode, spectator_mode, human_player_id, role, assigner_vars,
                  witch_vars, vote_vars, death_vars, current_round, phase, seer_results,
                  voted_player, game_over, winner, gs_night_actions, night_actions,
                  witch_action, error >>

NextValidate == ValidateInput \/ ValidateCall

SpecValidate == InitValidate /\ [][NextValidate]_vars

\* ------------------------------------------------- RoleAssigner on its own
\* Player.role before assign_roles
NoRole == "NoRole"

\* the player counts create_players is called with: around num_players, and
\* the smallest list that can hold a human player
PlayerCounts == {1} \cup ((num_players - MaxExtraPlayers) .. (num_players + MaxExtraPlayers))

\* create_players that marks every player as AI
create_players_AllAI(n, spectator, h) ==
  [i \in 1 .. n |-> [id |-> i - 1, alive |-> TRUE, is_ai |-> TRUE, role |-> NoRole]]

\* create_players(n, spectator_mode) when random.randint gave h
create_players(n, spectator, h) ==
  [i \in 1 .. n |-> [id |-> i - 1, alive |-> TRUE,
                     is_ai |-> (spectator \/ (i - 1) /= h), role |-> NoRole]]

\* the loop of assign_roles that gives every player the first role
assign_loop_First(players, rl) ==
  [i \in 1 .. Len(players) |->
     IF i <= Len(rl) THEN [players[i] EXCEPT !.role = rl[1]] ELSE players[i]]

\* the loop of assign_roles over players: player i takes rl[i]; the loop stops
\* with an IndexError at the first player beyond the end of rl
assign_loop(players, rl) ==
  [i \in 1 .. Len(players) |->
     IF i <= Len(rl) THEN [players[i] EXCEPT !.role = rl[i]] ELSE players[i]]

\* GameEngine.__init__: no player yet, an empty GameState
EmptyGame ==
  /\ enable_ai_mode \in BOOLEAN
  /\ spectator_mode \in BOOLEAN
  /\ spectator_mode => enable_ai_mode
  /\ human_player_id = None
  /\ role = [p \in Ids |-> NoRole]
  /\ alive = [p \in Ids |-> TRUE]
  /\ has_antidote = TRUE
  /\ has_poison = TRUE
  /\ used_antidote_night = None
  /\ used_poison_night = None
  /\ current_round = 1
  /\ phase = NIGHT
  /\ alive_players = << >>
  /\ dead_players = << >>
  /\ history = << >>
  /\ seer_results = [p \in Ids |-> Absent]
  /\ voted_player = None
  /\ game_over = FALSE
  /\ winner = NoCamp
  /\ gs_night_actions = << >>
  /\ night_actions = NightActions
  /\ witch_action = << >>
  /\ vote_counts = NoVotes
  /\ voter_idx = 0
  /\ error = NoError
  /\ returned = NoCamp
  /\ call = << >>

\* the engine before initialize_game calls create_players
InitAssign ==
  /\ EmptyGame
  /\ created = << >>
  /\ shuffled = << >>
  /\ shuffle_idx = 0
  /\ pc = "create"

\* a call of create_players; the engine keeps the human id it returns
CreatePlayers ==
  /\ pc = "create"
  /\ \E n \in PlayerCounts :
       \E h \in (IF spectator_mode THEN {None} ELSE 0 .. (n - 1)) :
         /\ created' = create_players(n, spectator_mode, h)
         /\ human_player_id' = h
  /\ pc' = "assign"
  /\ UNCHANGED << call, enable_ai_mode, spectator_mode, role, shuffled, shuffle_idx, returned,
                  witch_vars, death_vars, vote_vars, current_round, phase, seer_results,
                  voted_player, game_over, winner, gs_night_actions, night_actions,
                  witch_action, error >>

\* a call of assign_roles on the created players, for a shuffle outcome
AssignRoles ==
  /\ pc = "assign"
  /\ \E k \in 1 .. NumShuffles :
       LET rl == [i \in 1 .. Len(role_list) |-> role_list[Shuffles[k][i]]]
       IN /\ shuffled' = rl
          /\ created' = assign_loop(created, rl)
  /\ IF Len(created) > Len(role_list)
     THEN error' = "IndexError" /\ pc' = "crashed"
     ELSE error' = NoError /\ pc' = "assigned"
  /\ UNCHANGED << call, enable_ai_mode, spectator_mode, human_player_id, role, shuffle_idx,
                  returned, witch_vars, death_vars, vote_vars, current_round, phase,
                  seer_results, voted_player, game_over, winner, gs_night_actions,
                  night_actions, witch_action >>

NextAssign == CreatePlayers \/ AssignRoles

SpecAssign == InitAssign /\ [][NextAssign]_vars

\* ------------------------------------------- assign_roles, every shuffle
\* SpecShuffle runs assign_roles on the nine players of a spectator game and
\* follows random.shuffle through its swaps, so that role_list ends in every
\* order a shuffle can leave it in.
Swap(s, i, j) == [s EXCEPT ![i] = s[j], ![j] = s[i]]

\* assign_roles has built role_list and is about to shuffle it
InitShuffle ==
  /\ EmptyGame
  /\ spectator_mode
  /\ created = create_players(num_players, TRUE, None)
  /\ shuffled = role_list
  /\ shuffle_idx = Len(role_list)
  /\ pc = "shuffle"

\* one swap of random.shuffle: position shuffle_idx with any position up to it
ShuffleStep ==
  /\ pc = "shuffle"
  /\ shuffle_idx >= 2
  /\ \E j \in 1 .. shuffle_idx : shuffled' = Swap(shuffled, shuffle_idx, j)
  /\ shuffle_idx' = shuffle_idx - 1
  /\ UNCHANGED << call, enable_ai_mode, spectator_mode, human_player_id, role, created, returned,
                  witch_vars, death_vars, vote_vars, current_round, phase, seer_results,
                  voted_player, game_over, winner, gs_night_actions, night_actions,
                  witch_action, error, pc >>

\* the loop of assign_roles over the shuffled role_list
AssignShuffled ==
  /\ pc = "shuffle"
  /\ shuffle_idx < 2
  /\ created' = assign_loop(created, shuffled)
  /\ pc' = "assigned"
  /\ UNCHANGED << call, enable_ai_mode, spectator_mode, human_player_id, role, shuffled,
                  shuffle_idx, returned, witch_vars, death_vars, vote_vars, current_round,
                  phase, seer_results, voted_player, game_over, winner, gs_night_actions,
                  night_actions, witch_action, error >>

NextShuffle == ShuffleStep \/ AssignShuffled

SpecShuffle == InitShuffle /\ [][NextShuffle]_vars

\* a run is either assign_roles at setup or the game that follows a setup
InitRoles == InitShuffle \/ Init

NextRoles == NextShuffle \/ Next

SpecRoles == InitRoles /\ [][NextRoles]_vars

\* ------------------------------------------ _process_night_phase on any state
\* SpecNight enters _process_night_phase with any set of living players, also
\* the sets the winner check of the loop keeps it from (no living werewolf,
\* no living other player); the lists of the GameState are in step with the
\* alive flags. The night's handlers and its resolution are those of Spec.
InitNight == Construct /\ pc = "night_state"

\* entry into _process_night_phase up to its first decision
NightEntry ==
  /\ pc = "night_state"
  /\ \E al \in [Ids -> BOOLEAN] :
       /\ alive' = al
       /\ alive_players' = SortedSeq({p \in Ids : al[p]})
       /\ dead_players' = SortedSeq({p \in Ids : ~al[p]})
  /\ phase' = NIGHT
  /\ night_actions' = NightActions
  /\ witch_action' = << >>
  /\ pc' = "werewolf"
  /\ UNCHANGED << returned, config, witch_vars, vote_vars, history, current_round,
                  seer_results, voted_player, game_over, winner, gs_night_actions, error >>

NextNight == NightEntry \/ WerewolfAction \/ SeerAction \/ WitchAction \/ ResolveNight

SpecNight == InitNight /\ [][NextNight]_vars

\* ------------------------------------------------------------- properties
NoDup(s) == \A i, j \in 1 .. Len(s) : i /= j => s[i] /= s[j]
SeqSet(s) == {s[i] : i \in 1 .. Len(s)}
Count(s, x) == Cardinality({i \in 1 .. Len(s) : s[i] = x})

\* the state right after _resolve_night_actions ran (or raised) in the
\* current night; LastNight is the record it resolved
AfterNight == gs_night_actions /= << >> /\ phase = NIGHT /\ pc \in {"day", "done", "crashed"}
LastNight == gs_night_actions[1]

\* C1: alive_players and dead_players share no id, hold no id twice, and
\* together hold exactly the ids of all created players
C1_AliveDeadPartition ==
  /\ NoDup(alive_players)
  /\ NoDup(dead_players)
  /\ SeqSet(alive_players) \cap SeqSet(dead_players) = {}
  /\ SeqSet(alive_players) \cup SeqSet(dead_players) = Ids
  /\ Len(alive_players) + Len(dead_players) = num_players

\* a night death, a vote elimination of the hunter and the hunter's shot have
\* all been applied
C1_Witness ==
  /\ pc = "incr"
  /\ \E i \in 1 .. Len(history) : history[i].action_type = KILL
  /\ voted_player /= None
  /\ role[voted_player] = HUNTER
  /\ Len(dead_players) >= 3
  /\ dead_players[Len(dead_players) - 1] = voted_player

\* C2: after the night resolution an unsaved werewolf_kill is dead and in
\* dead_players, and a saved one was not killed
C2_KillUnlessSaved ==
  (AfterNight /\ LastNight.werewolf_kill /= None) =>
    LET t == LastNight.werewolf_kill
    IN IF LastNight.witch_save /= t
       THEN ~alive[t] /\ InSeq(dead_players, t)
       ELSE alive[t] /\ ~InSeq(dead_players, t)

\* C3: a poison target named by the witch's decision (no save, poison held)
\* is dead after the night's resolution and the poison is consumed
C3_PoisonKills ==
  (AfterNight /\ witch_action /= << >>) =>
    LET wa == witch_action[1]
    IN (wa.poison /= None /\ ~wa.save) =>
         /\ ~has_poison
         /\ used_poison_night = current_round
         /\ ~alive[wa.poison]
         /\ InSeq(dead_players, wa.poison)

\* C4: a night whose witch_save equals its werewolf_kill (both set) and whose
\* witch_poison is None kills nobody: players, alive_players, dead_players and
\* history are left as they were and the loop goes on to the day phase
C4_SavedNightKillsNobody ==
  [][(pc = "resolve"
      /\ night_actions.werewolf_kill /= None
      /\ night_actions.witch_save = night_actions.werewolf_kill
      /\ night_actions.witch_poison = None)
     => (/\ alive' = alive
         /\ alive_players' = alive_players
         /\ dead_players' = dead_players
         /\ history' = history
         /\ pc' = "day")]_vars

\* a saved night has been resolved and its target lives
C4_Witness ==
  /\ AfterNight
  /\ pc = "day"
  /\ LastNight.werewolf_kill /= None
  /\ LastNight.witch_save = LastNight.werewolf_kill
  /\ LastNight.witch_poison = None
  /\ alive[LastNight.werewolf_kill]

NightKillRecords(t, rnd) ==
  {i \in 1 .. Len(history) :
     /\ history[i].action_type = KILL
     /\ history[i].target_id = t
     /\ history[i].round = rnd}

\* C6: when one player is both the unsaved werewolf_kill and the witch_poison,
\* the resolution ends without an exception, the player is in dead_players
\* exactly once and exactly one Kill record was appended for it
C6_DoubleDeathIdempotent ==
  (/\ AfterNight
   /\ LastNight.werewolf_kill /= None
   /\ LastNight.werewolf_kill /= LastNight.witch_save
   /\ LastNight.witch_poison = LastNight.werewolf_kill) =>
    /\ error = NoError
    /\ ~alive[LastNight.werewolf_kill]
    /\ Count(dead_players, LastNight.werewolf_kill) = 1
    /\ Cardinality(NightKillRecords(LastNight.werewolf_kill, current_round)) = 1

\* the vote loop is over and the tally has a single target at the highest count
TallyReady == pc = "voting" /\ voter_idx > Len(Voters)
TopTarget(vc) == CHOOSE t \in {u \in DOMAIN vc : vc[u] > 0} : \A u \in DOMAIN vc : vc[u] < vc[t] \/ u = t
HasUniqueMax(vc) ==
  \E t \in DOMAIN vc : vc[t] > 0 /\ \A u \in DOMAIN vc : u /= t => vc[u] < vc[t]
TiedMax(vc) ==
  \E t, u \in DOMAIN vc : t /= u /\ vc[t] > 0 /\ vc[t] = vc[u] /\ \A x \in DOMAIN vc : vc[x] <= vc[t]

\* C7: when exactly one target holds the highest vote count, the tally
\* eliminates exactly that player: its alive flag is cleared, its id moves from
\* alive_players to dead_players, voted_player is set to it, one Vote record
\* that targets it is appended, and no other player's alive flag changes
C7_UniqueMaxEliminated ==
  [][(TallyReady /\ HasUniqueMax(vote_counts))
     => LET e == TopTarget(vote_counts)
        IN /\ alive[e]
           /\ alive' = [alive EXCEPT ![e] = FALSE]
           /\ alive_players' = Remove(alive_players, e)
           /\ ~InSeq(alive_players', e)
           /\ dead_players' = Append(dead_players, e)
           /\ voted_player' = e
           /\ Len(history') = Len(history) + 1
           /\ history'[Len(history')].action_type = VOTE_ACTION
           /\ history'[Len(history')].target_id = e
           /\ history'[Len(history')].round = current_round
           /\ SubSeq(history', 1, Len(history)) = history]_vars

\* a tally with a single highest target has been executed
C7_Witness ==
  /\ pc \in {"incr", "hunter"}
  /\ HasUniqueMax(vote_counts)
  /\ voted_player = TopTarget(vote_counts)
  /\ ~alive[voted_player]
  /\ dead_players /= << >>
  /\ dead_players[Len(dead_players)] = voted_player
  /\ history /= << >>
  /\ history[Len(history)].action_type = VOTE_ACTION
  /\ history[Len(history)].target_id = voted_player

\* C8: when two or more targets are tied at the highest vote count the vote
\* phase eliminates nobody: alive flags, alive_players, dead_players,
\* voted_player and history are unchanged and no hunter shot follows; the
\* votes being cast change none of them either
C8_TieEliminatesNobody ==
  [][/\ (TallyReady /\ TiedMax(vote_counts))
        => (/\ UNCHANGED << alive, alive_players, dead_players, voted_player, history >>
            /\ pc' = "incr")
     /\ (pc \in {"vote", "voting"} /\ pc' = "voting")
        => UNCHANGED << alive, alive_players, dead_players, voted_player, history >>]_vars

\* a tied tally has been executed
C8_Witness ==
  /\ pc = "incr"
  /\ phase = VOTE
  /\ TiedMax(vote_counts)
  /\ voted_player = None
  /\ history = << >>

\* C9: a hunter eliminated by the vote is followed by exactly one further
\* death, the hunter's target, and the chain stops there: the shot is asked
\* for only by the tally that executed the hunter, it always has a target, it
\* kills one living player whatever that player's role and hands control back
\* to the loop, so a vote phase produces at most two deaths
C9_HunterChainDepthOne ==
  /\ [](pc = "hunter" =>
          /\ voted_player /= None
          /\ role[voted_player] = HUNTER
          /\ ~alive[voted_player]
          /\ Candidates(HunterTargets(voted_player)) /= {})
  /\ [][/\ (TallyReady /\ HasUniqueMax(vote_counts))
           => (pc' = "hunter" <=> role[TopTarget(vote_counts)] = HUNTER)
        /\ pc' = "hunter" => (TallyReady /\ HasUniqueMax(vote_counts))
        /\ pc = "voting" => Len(dead_players') <= Len(dead_players) + 1
        /\ pc = "hunter"
           => (/\ pc' = "incr"
               /\ Len(dead_players') = Len(dead_players) + 1
               /\ alive[dead_players'[Len(dead_players')]]
               /\ alive' = [alive EXCEPT ![dead_players'[Len(dead_players')]] = FALSE]
               /\ alive_players' = Remove(alive_players, dead_players'[Len(dead_players')])
               /\ SubSeq(dead_players', 1, Len(dead_players)) = dead_players)]_vars

\* the hunter was executed by the vote and its shot has killed one more player
C9_Witness ==
  /\ pc = "incr"
  /\ phase = VOTE
  /\ HasUniqueMax(vote_counts)
  /\ voted_player = TopTarget(vote_counts)
  /\ role[voted_player] = HUNTER
  /\ Len(dead_players) >= 2
  /\ dead_players[Len(dead_players) - 1] = voted_player
  /\ ~alive[dead_players[Len(dead_players)]]
  /\ role[dead_players[Len(dead_players)]] /= HUNTER

\* C10: every death is recorded: each player in dead_players is the target_id
\* of a record of history
C10_EveryDeathRecorded ==
  \A i \in 1 .. Len(dead_players) :
    \E j \in 1 .. Len(history) : history[j].target_id = dead_players[i]

\* the counts of living werewolves and of living other players
AliveWerewolves == Cardinality({p \in Ids : alive[p] /\ role[p] = WEREWOLF})
AliveGood == Cardinality({p \in Ids : alive[p] /\ role[p] /= WEREWOLF})

\* C11: while no winner is stored, check_winner returns the Villager camp
\* exactly when no werewolf lives, the Werewolf camp exactly when a werewolf
\* lives and the living non-werewolves are at most as many as the living
\* werewolves, and None otherwise; the call changes no state
C11_CheckWinnerByRoles ==
  /\ []((pc = "check_winner" /\ winner = NoCamp) =>
          /\ (returned = CampVillager <=> AliveWerewolves = 0)
          /\ (returned = CampWerewolf <=> (AliveWerewolves > 0 /\ AliveGood <= AliveWerewolves))
          /\ (returned = NoCamp <=> (AliveWerewolves > 0 /\ AliveGood > AliveWerewolves)))
  /\ [][pc' = "check_winner" =>
          UNCHANGED << role, alive, alive_players, dead_players, history, winner, game_over,
                       current_round, phase, witch_vars >>]_vars

\* the evaluator has answered Werewolf camp for two living werewolves and two
\* living others
C11_Witness ==
  /\ pc = "check_winner"
  /\ winner = NoCamp
  /\ AliveWerewolves = 2
  /\ AliveGood = 2
  /\ returned = CampWerewolf

\* C12: once a winner is stored, check_winner and check_victory_conditions
\* both return that camp whatever the alive roles are, and change no state
C12_WinnerIdempotent ==
  /\ []((winner /= NoCamp /\ pc \in {"check_winner", "check_victory_conditions"}) =>
          returned = winner)
  /\ [][pc' \in {"check_winner", "check_victory_conditions"} =>
          UNCHANGED << role, alive, alive_players, dead_players, history, winner, game_over,
                       current_round, phase, witch_vars >>]_vars

\* C13: a phase body is entered only without a winner: whenever the loop
\* enters _process_night_phase, _process_day_phase or _process_vote_phase,
\* game_over is false and check_winner on the living players returns None
C13_NoPhaseAfterWinner ==
  [][((pc = "loop" /\ pc' = "werewolf") \/ (pc = "day" /\ pc' = "vote")
      \/ (pc = "vote" /\ pc' = "voting"))
     => (~game_over /\ winner = NoCamp /\ check_winner(winner, role, alive) = NoCamp)]_vars

\* the second night has been entered after deaths that left no winner
C13_Witness ==
  /\ pc = "werewolf"
  /\ current_round = 2
  /\ Len(dead_players) >= 2
  /\ ~game_over

\* C14: when the vote phase (with the hunter's shot) leaves a winning
\* configuration, the next step of the loop ends the game in the same round:
\* game_over becomes true and current_round is not incremented
C14_RoundKeptAtVoteWin ==
  [][(pc = "incr" /\ check_winner(winner, role, alive) /= NoCamp)
     => (game_over' /\ current_round' = current_round)]_vars

\* C15: has_antidote and has_poison never go back to true, and each used-night
\* field is written only in the step that consumes its potion, with the
\* current round, so it is written at most once
C15_PotionsConsumedOnce ==
  /\ []((has_antidote <=> used_antidote_night = None)
         /\ (has_poison <=> used_poison_night = None))
  /\ [][/\ (has_antidote' => has_antidote)
        /\ (has_poison' => has_poison)
        /\ (used_antidote_night' /= used_antidote_night
              => (has_antidote /\ ~has_antidote' /\ used_antidote_night' = current_round))
        /\ (used_poison_night' /= used_poison_night
              => (has_poison /\ ~has_poison' /\ used_poison_night' = current_round))]_vars

\* the antidote went in the first night and the poison in the second
C15_Witness ==
  /\ ~has_antidote
  /\ ~has_poison
  /\ used_antidote_night = 1
  /\ used_poison_night = 2

\* C16: the night's witch_save is None or the same night's werewolf_kill, in
\* the record being filled and in the one saved in the game state
C16_SaveIsTheKill ==
  /\ night_actions.witch_save \in {None, night_actions.werewolf_kill}
  /\ (gs_night_actions /= << >> => LastNight.witch_save \in {None, LastNight.werewolf_kill})

\* the witch has saved the night's target and the seer checked someone else
C16_Witness ==
  /\ pc = "resolve"
  /\ night_actions.witch_save /= None
  /\ night_actions.werewolf_kill = night_actions.witch_save
  /\ night_actions.seer_check /= None
  /\ night_actions.seer_check /= night_actions.werewolf_kill

\* C17: whatever the witch's actor requests, a save takes effect only with
\* has_antidote true and a werewolf_kill, a poison only with has_poison true; an
\* applied potion clears its flag and stamps the current round; a request
\* without eligibility changes neither the potions nor the night's record
C17_EligibilityEnforced ==
  [][pc = "witch_request" =>
       LET killed == night_actions.werewolf_kill
           can_save == has_antidote /\ killed /= None
           saved == night_actions'.witch_save /= None
           poisoned == night_actions'.witch_poison /= None
       IN /\ saved => (can_save /\ night_actions'.witch_save = killed)
          /\ poisoned => has_poison
          /\ saved <=> (has_antidote /\ ~has_antidote')
          /\ poisoned <=> (has_poison /\ ~has_poison')
          /\ saved => used_antidote_night' = current_round
          /\ poisoned => used_poison_night' = current_round
          /\ ~saved => UNCHANGED << has_antidote, used_antidote_night >>
          /\ ~poisoned => UNCHANGED << has_poison, used_poison_night >>
          /\ witch_action' /= << >> =>
               LET wa == witch_action'[1]
               IN /\ saved => wa.save
                  /\ poisoned => night_actions'.witch_poison = wa.poison
                  /\ (~(wa.save /\ can_save) /\ ~(wa.poison /= None /\ has_poison))
                       => (night_actions' = night_actions /\ UNCHANGED witch_vars)]_vars

\* in the second night the actor asked for a save although the antidote went
\* in the first, and nothing was applied
C17_Witness ==
  /\ pc = "witch_night"
  /\ current_round = 3
  /\ witch_action /= << >>
  /\ witch_action[1].save
  /\ witch_action[1].poison = None
  /\ night_actions.werewolf_kill /= None
  /\ night_actions.witch_save = None
  /\ ~has_antidote
  /\ used_antidote_night = 1
  /\ has_poison

\* C18: whatever an actor does at a decision point (raise, None, an id that
\* is no legal target), the engine ends up with a legal choice, the handler
\* completes and no exception leaves run_game_loop: the werewolves' target is
\* a living non-werewolf, the seer's a living other player, the witch's step
\* reaches the resolution, the day reaches the vote, every vote goes to a
\* living player other than the voter, and the hunter's shot kills a living
\* player
C18_ActorFailureContained ==
  [][/\ pc = "werewolf" =>
          /\ pc' = "seer"
          /\ night_actions'.werewolf_kill /= None =>
               (alive[night_actions'.werewolf_kill]
                /\ role[night_actions'.werewolf_kill] /= WEREWOLF)
     /\ pc = "seer" =>
          /\ pc' = "witch"
          /\ night_actions'.seer_check /= None =>
               (alive[night_actions'.seer_check]
                /\ role[night_actions'.seer_check] /= SEER)
     /\ pc = "witch" => pc' = "resolve"
     /\ pc = "day" => pc' = "vote"
     /\ (pc = "voting" /\ voter_idx <= Len(Voters)) =>
          /\ pc' = "voting"
          /\ \E t \in AliveIds \ {Voters[voter_idx]} :
               vote_counts' = [vote_counts EXCEPT ![t] = @ + 1]
     /\ pc = "hunter" =>
          /\ pc' = "incr"
          /\ Len(dead_players') = Len(dead_players) + 1]_vars

\* the number of votes in a tally
RECURSIVE SumOver(_, _)
SumOver(f, S) ==
  IF S = {} THEN 0
  ELSE LET x == CHOOSE y \in S : TRUE IN f[x] + SumOver(f, S \ {x})

\* C19: in a vote phase every player alive at its start casts exactly one
\* vote and nobody else votes: each pass of the loop adds one vote, for a
\* living player other than the voter, nobody dies while the votes are cast,
\* and the finished tally holds as many votes as there are living players,
\* none of them for a dead player or for None
C19_OneLegalVoteEach ==
  /\ [](pc = "voting" =>
          /\ SumOver(vote_counts, DOMAIN vote_counts) = voter_idx - 1
          /\ voter_idx <= Len(Voters) + 1
          /\ \A t \in DOMAIN vote_counts : vote_counts[t] > 0 => (t /= None /\ alive[t]))
  /\ [](TallyReady => SumOver(vote_counts, DOMAIN vote_counts) = Cardinality(AliveIds))
  /\ [][(pc = "voting" /\ voter_idx <= Len(Voters)) =>
          /\ pc' = "voting"
          /\ voter_idx' = voter_idx + 1
          /\ alive' = alive
          /\ alive[Voters[voter_idx]]
          /\ \E t \in AliveIds \ {Voters[voter_idx]} :
               vote_counts' = [vote_counts EXCEPT ![t] = @ + 1]]_vars

\* the eight survivors of a night with one death have all voted
C19_Witness ==
  /\ TallyReady
  /\ Len(dead_players) = 1
  /\ Len(Voters) = 8
  /\ SumOver(vote_counts, DOMAIN vote_counts) = 8

\* C20: from the werewolves' decision to the night's resolution a non-null
\* werewolf_kill names a player who is alive and is not a Werewolf
C20_KillTargetLegal ==
  (pc \in {"seer", "witch", "resolve"} /\ night_actions.werewolf_kill /= None) =>
    /\ night_actions.werewolf_kill \in Ids
    /\ alive[night_actions.werewolf_kill]
    /\ InSeq(alive_players, night_actions.werewolf_kill)
    /\ role[night_actions.werewolf_kill] /= WEREWOLF

\* in the second night, after deaths, the werewolves' target awaits resolution
C20_Witness ==
  /\ pc = "resolve"
  /\ current_round = 2
  /\ Len(dead_players) >= 1
  /\ night_actions.werewolf_kill /= None
  /\ night_actions.werewolf_kill /= 0

\* C21: the target of a vote-eliminated hunter's shot is a known player who
\* is alive at the moment of the shot and is not the hunter: the hunter is
\* already dead when it is asked, and the shot clears the alive flag of one
\* living other player without an exception
C21_HunterTargetLegal ==
  /\ [](pc = "hunter" => (voted_player \in Ids /\ ~alive[voted_player]))
  /\ [][pc = "hunter" =>
          /\ error' = NoError
          /\ \E t \in Ids :
               /\ t /= voted_player
               /\ alive[t]
               /\ InSeq(alive_players, t)
               /\ ~InSeq(dead_players, t)
               /\ alive' = [alive EXCEPT ![t] = FALSE]
               /\ dead_players' = Append(dead_players, t)]_vars

\* an AI hunter executed by the vote has shot another player
C21_Witness ==
  /\ pc = "incr"
  /\ voted_player /= None
  /\ role[voted_player] = HUNTER
  /\ in_ai_players(voted_player)
  /\ dead_players[Len(dead_players) - 1] = voted_player
  /\ dead_players[Len(dead_players)] /= voted_player
  /\ ~alive[dead_players[Len(dead_players)]]
  /\ ~InSeq(alive_players, dead_players[Len(dead_players)])
  /\ error = NoError

\* C22: seer_results only grows and is truthful: a check of t stores the
\* Werewolf result exactly when t is a Werewolf and the Good result otherwise,
\* touches no other entry, no entry is removed or changed by any step, and the
\* check changes neither the alive flags, the lists, the history nor the
\* deaths the night's record leads to
C22_SeerResultsTruthful ==
  /\ [](\A t \in Ids :
          seer_results[t] \in {Absent, IF role[t] = WEREWOLF THEN "werewolf" ELSE "good"})
  /\ [][/\ \A t \in Ids : seer_results[t] /= Absent => seer_results'[t] = seer_results[t]
        /\ seer_results' /= seer_results => pc = "seer"
        /\ pc = "seer" =>
             /\ UNCHANGED << alive, alive_players, dead_players, history, role >>
             /\ Deaths(night_actions') = Deaths(night_actions)
             /\ night_actions'.werewolf_kill = night_actions.werewolf_kill
             /\ \A t \in Ids : t /= night_actions'.seer_check =>
                  seer_results'[t] = seer_results[t]
             /\ night_actions'.seer_check /= None =>
                  LET t == night_actions'.seer_check
                  IN /\ (seer_results'[t] = "werewolf" <=> role[t] = WEREWOLF)
                     /\ (seer_results'[t] = "good" <=> role[t] /= WEREWOLF)]_vars

\* two nights' checks are stored, one of a werewolf and one of another player
C22_Witness ==
  /\ pc = "witch"
  /\ current_round = 2
  /\ \E t, u \in Ids :
       /\ seer_results[t] = "werewolf"
       /\ seer_results[u] = "good"
       /\ night_actions.seer_check \in {t, u}

\* C23: without a living werewolf or without a living target the werewolves'
\* decision leaves werewolf_kill None; in a night whose werewolf_kill is None
\* the witch's step saves nobody and keeps the antidote, and the resolution
\* ends without an exception, kills nobody but the poison target and records
\* at most that one death
C23_NullKillNight ==
  [][/\ (pc = "werewolf"
         /\ (AliveWithRole(WEREWOLF) = {} \/ {p \in Ids : alive[p] /\ role[p] /= WEREWOLF} = {}))
        => (night_actions'.werewolf_kill = None /\ pc' = "seer")
     /\ (pc = "seer" /\ night_actions.werewolf_kill = None)
        => night_actions'.werewolf_kill = None
     /\ (pc = "witch" /\ night_actions.werewolf_kill = None)
        => (/\ pc' = "resolve"
            /\ night_actions'.werewolf_kill = None
            /\ night_actions'.witch_save = None
            /\ UNCHANGED << has_antidote, used_antidote_night >>)
     /\ (pc = "resolve" /\ night_actions.werewolf_kill = None)
        => (/\ error' = NoError
            /\ pc' \in {"day", "done"}
            /\ \A p \in Ids : alive'[p] => alive[p]
            /\ \A p \in Ids : (alive[p] /\ ~alive'[p]) => p = night_actions.witch_poison
            /\ dead_players' \in {dead_players, Append(dead_players, night_actions.witch_poison)}
            /\ Len(history') <= Len(history) + 1
            /\ history' /= history =>
                 history'[Len(history')].target_id = night_actions.witch_poison)]_vars

\* a night without a living werewolf has been resolved: nobody was targeted,
\* the antidote is kept and the poisoned player is the one death
C23_Witness ==
  /\ gs_night_actions /= << >>
  /\ pc = "done"
  /\ AliveWerewolves = 0
  /\ LastNight.werewolf_kill = None
  /\ LastNight.witch_save = None
  /\ LastNight.witch_poison /= None
  /\ ~alive[LastNight.witch_poison]
  /\ dead_players[Len(dead_players)] = LastNight.witch_poison
  /\ has_antidote
  /\ error = NoError

\* s is a prefix of t
IsPrefix(s, t) == Len(s) <= Len(t) /\ SubSeq(t, 1, Len(s)) = s

\* C24: history is append-only: over every step of the engine and every call
\* of process_player_death, record_action and advance_phase, the history
\* before the step is a prefix of the history after it, and a step appends at
\* most the two deaths of a night
C24_HistoryAppendOnly ==
  [][IsPrefix(history, history') /\ Len(history') <= Len(history) + 2]_vars

\* a manager has recorded a death in the first night, then a call of
\* record_action, advanced to the second night and recorded a second death
C24_Witness ==
  /\ pc = "ops"
  /\ current_round = 2
  /\ Len(history) = 3
  /\ history[1].player_id = 0
  /\ history[1].round = 1
  /\ history[2].player_id /= 0
  /\ history[3].player_id = 0
  /\ history[3].round = 2
  /\ Len(dead_players) = 2

\* roles r among the players of a created list
RoleCount(players, r) == Cardinality({i \in 1 .. Len(players) : players[i].role = r})

\* C25: whatever order the shuffle leaves role_list in, assign_roles gives each
\* of the nine players one role and the roles are 3 Werewolves, 1 Seer, 1 Witch,
\* 1 Hunter and 3 Villagers; the players of a game have these counts too, and
\* no step of the game changes a role
C25_RoleDistribution ==
  /\ [](pc = "assigned" =>
          /\ Len(created) = num_players
          /\ \A i \in 1 .. Len(created) : created[i].role \in RoleType
          /\ RoleCount(created, WEREWOLF) = 3
          /\ RoleCount(created, SEER) = 1
          /\ RoleCount(created, WITCH) = 1
          /\ RoleCount(created, HUNTER) = 1
          /\ RoleCount(created, VILLAGER) = 3)
  /\ [](pc \notin {"shuffle", "assigned"} =>
          /\ \A p \in Ids : role[p] \in RoleType
          /\ Cardinality({p \in Ids : role[p] = WEREWOLF}) = 3
          /\ Cardinality({p \in Ids : role[p] = SEER}) = 1
          /\ Cardinality({p \in Ids : role[p] = WITCH}) = 1
          /\ Cardinality({p \in Ids : role[p] = HUNTER}) = 1
          /\ Cardinality({p \in Ids : role[p] = VILLAGER}) = 3)
  /\ [][role' = role /\ (pc = "assigned" => created' = created)]_vars

\* a shuffle that reversed role_list has been assigned: player 0 is a
\* Werewolf and player 8 the Seer
C25_Witness ==
  /\ pc = "assigned"
  /\ created[1].role = WEREWOLF
  /\ created[num_players].role = SEER
  /\ created[num_players - 1].role = WITCH
  /\ created[4].role = VILLAGER

\* C26: assign_roles on a list whose length is not the total of the role
\* distribution fails with a configuration error: it never returns an
\* assignment for such a list, and the failure is a ConfigError raised before
\* any role is given
C26_MismatchIsConfigError ==
  (pc \in {"assigned", "crashed"} /\ Len(created) /= Len(role_list)) =>
    /\ pc = "crashed"
    /\ error = "ConfigError"
    /\ \A i \in 1 .. Len(created) : created[i].role = NoRole

\* C27: create_players(n, spectator_mode) returns n players with the ids
\* 0 .. n-1 in order, all alive; without spectator mode exactly one of them is
\* not AI and the returned human id is its id; in spectator mode all are AI
\* and the returned human id is None
C27_CreatePlayers ==
  pc = "assign" =>
    /\ Len(created) \in PlayerCounts
    /\ \A i \in 1 .. Len(created) : created[i].id = i - 1 /\ created[i].alive
    /\ \A i, j \in 1 .. Len(created) : i /= j => created[i].id /= created[j].id
    /\ spectator_mode =>
         (human_player_id = None /\ \A i \in 1 .. Len(created) : created[i].is_ai)
    /\ ~spectator_mode =>
         /\ Cardinality({i \in 1 .. Len(created) : ~created[i].is_ai}) = 1
         /\ human_player_id \in 0 .. (Len(created) - 1)
         /\ \A i \in 1 .. Len(created) :
              ~created[i].is_ai <=> created[i].id = human_player_id

\* nine players were created with the last one as the human player
C27_Witness ==
  /\ pc = "assign"
  /\ Len(created) = num_players
  /\ ~spectator_mode
  /\ human_player_id = num_players - 1
  /\ ~created[num_players].is_ai
  /\ created[1].is_ai

\* the ids held by a list
IdsOf(s) == {s[i] : i \in 1 .. Len(s)}

\* C28: death is permanent: over every step of the engine and every call of
\* the manager during a game, a cleared alive flag stays cleared, an id in
\* dead_players stays there at its place, and an id that left alive_players
\* never returns to it
C28_DeathIsPermanent ==
  [][/\ \A p \in Ids : ~alive[p] => ~alive'[p]
     /\ IsPrefix(dead_players, dead_players')
     /\ IdsOf(alive_players') \subseteq IdsOf(alive_players)
     /\ IdsOf(dead_players) \cap IdsOf(alive_players') = {}]_vars

\* the player killed in the first night is still dead in the second night,
\* after the vote killed another
C28_Witness ==
  /\ pc = "werewolf"
  /\ current_round = 2
  /\ Len(dead_players) >= 2
  /\ history /= << >>
  /\ history[1].action_type = KILL
  /\ history[1].round = 1
  /\ dead_players[1] = history[1].target_id
  /\ ~alive[dead_players[1]]
  /\ ~InSeq(alive_players, dead_players[1])

\* the positions where the engine waits for an actor's decision
AwaitPcs == {"werewolf", "seer", "witch", "day", "voting", "hunter"}

\* C29: wherever the engine waits for an actor's decision, and wherever an
\* exception has aborted a phase, every player's alive flag agrees with the
\* lists: the player is alive exactly when its id is in alive_players and
\* exactly when it is not in dead_players
C29_FlagsAgreeAtAwait ==
  pc \in AwaitPcs \cup {"crashed"} =>
    \A p \in Ids :
      /\ alive[p] <=> InSeq(alive_players, p)
      /\ alive[p] <=> ~InSeq(dead_players, p)

\* the hunter is asked for its target right after the vote executed it: a
\* night death and the execution are both fully applied
C29_Witness ==
  /\ pc = "hunter"
  /\ Len(dead_players) = 2
  /\ dead_players[2] = voted_player
  /\ ~alive[voted_player]
  /\ ~alive[dead_players[1]]
  /\ Len(alive_players) = num_players - 2

\* C30: at the start of every night, before the first actor is asked, the
\* night's own record and the NightActions kept in the game state hold no
\* value: every field is None
C30_NightActionsReset ==
  pc = "werewolf" =>
    /\ night_actions = NightActions
    /\ (gs_night_actions = << >> \/ gs_night_actions[1] = NightActions)

\* C31: in the manager the phase only moves along NIGHT, DAY, VOTE, NIGHT, and
\* current_round grows by one on a step from VOTE to NIGHT and is changed by
\* no other call
C31_RoundOnlyOnVoteToNight ==
  [][/\ phase' /= phase =>
          << phase, phase' >> \in {<< NIGHT, DAY >>, << DAY, VOTE >>, << VOTE, NIGHT >>}
     /\ current_round' = IF phase = VOTE /\ phase' = NIGHT
                         THEN current_round + 1 ELSE current_round]_vars

\* C32: a call of process_player_death for a living player clears its flag,
\* moves its id from alive_players to the end of dead_players and appends one
\* KILL record naming it, whatever the death cause; a call for a dead player
\* changes neither the flags nor the lists nor writes a death record
C32_DeathCallEffect ==
  [][/\ alive' /= alive =>
          \E p \in Ids :
            /\ alive[p]
            /\ alive' = [alive EXCEPT ![p] = FALSE]
            /\ alive_players' = Remove(alive_players, p)
            /\ dead_players' = Append(dead_players, p)
            /\ Len(history') = Len(history) + 1
            /\ IsPrefix(history, history')
            /\ history'[Len(history')].action_type = KILL
            /\ history'[Len(history')].player_id = 0
            /\ history'[Len(history')].target_id = p
     /\ alive' = alive =>
          /\ alive_players' = alive_players
          /\ dead_players' = dead_players
          /\ \A i \in (Len(history) + 1) .. Len(history') : history'[i].player_id /= 0]_vars

\* what the rules allow the action of a validate_player_action call c to be
LegalAction(c) ==
  /\ c.player_id \in Ids
  /\ alive[c.player_id]
  /\ c.action_type = "kill" =>
       (c.target_id \in Ids /\ alive[c.target_id] /\ role[c.target_id] /= WEREWOLF)
  /\ c.action_type = "check" =>
       (c.target_id \in Ids /\ alive[c.target_id] /\ c.target_id /= c.player_id)
  /\ c.action_type = "save" =>
       (c.target_id = night_actions.werewolf_kill /\ has_antidote)
  /\ c.action_type = "poison" =>
       (c.target_id \in Ids /\ alive[c.target_id] /\ has_poison)
  /\ c.action_type = "vote" =>
       (c.target_id \in Ids /\ alive[c.target_id] /\ c.target_id /= c.player_id)

\* C33: validate_player_action accepts only legal actions: the actor is a
\* living player, a kill names a living non-werewolf, a check a living player
\* other than the seer, a save the night's kill while the antidote is held, a
\* poison a living player while the poison is held, a vote a living player
\* other than the voter
C33_OnlyLegalAccepted ==
  (pc = "validated" /\ returned = "True") => LegalAction(call[1])

\* C34: the hunter shoots only after the vote executed it: the engine asks
\* for a shot only out of the vote tally that eliminated a hunter, and the
\* night resolution kills nobody but the night's kill and the poisoned player
\* and goes on to the day, the end of the game or a crash
C34_HunterShotOnlyAfterVote ==
  [][/\ pc' = "hunter" =>
          (pc = "voting" /\ role[voted_player'] = HUNTER /\ ~alive'[voted_player'])
     /\ pc = "resolve" =>
          /\ pc' \in {"day", "done", "crashed"}
          /\ IdsOf(dead_players') \ IdsOf(dead_players)
               \subseteq {night_actions.werewolf_kill, night_actions.witch_poison}
          /\ Len(dead_players') <= Len(dead_players) + 2
          /\ night_actions'.hunter_shoot = None]_vars

\* the hunter was killed in the night just resolved and the day begins with
\* nobody else dead because of it
C34_Witness ==
  /\ pc = "day"
  /\ dead_players /= << >>
  /\ \E h \in Ids :
       /\ role[h] = HUNTER
       /\ ~alive[h]
       /\ h \in {gs_night_actions[1].werewolf_kill, gs_night_actions[1].witch_poison}
       /\ history[Len(history)].round = current_round
       /\ \A i \in 1 .. Len(history) :
            history[i].round = current_round =>
              history[i].target_id \in {gs_night_actions[1].werewolf_kill,
                                        gs_night_actions[1].witch_poison}

\* C35: a night that starts with a living werewolf and in which the witch
\* does not save ends with at least one new death, so the game cannot go on
\* for ever
C35_NightWithoutSaveKills ==
  [][(/\ pc = "resolve"
      /\ AliveWithRole(WEREWOLF) /= {}
      /\ night_actions.witch_save = None)
       => Len(dead_players') > Len(dead_players)]_vars

\* the camp that has won by the roles of the living, None while nobody has
VerdictByRoles ==
  IF AliveWerewolves = 0 THEN CampVillager
  ELSE IF AliveGood <= AliveWerewolves THEN CampWerewolf
  ELSE NoCamp

\* C36: game_over is true exactly when a winner is stored; a stored winner and
\* a set game_over never change; and when run_game_loop has returned, the
\* winner is a camp and is the verdict by the roles of the players alive then
C36_WinnerAndGameOver ==
  /\ [](/\ game_over <=> (winner /= NoCamp)
        /\ pc = "done" =>
             /\ game_over
             /\ winner \in {CampWerewolf, CampVillager}
             /\ winner = VerdictByRoles)
  /\ [][/\ winner /= NoCamp => winner' = winner
        /\ game_over => game_over']_vars

\* run_game_loop has returned the Werewolf camp after the werewolves caught up
\* with the others
C36_Witness ==
  /\ pc = "done"
  /\ game_over
  /\ winner = CampWerewolf
  /\ AliveWerewolves > 0
  /\ AliveGood <= AliveWerewolves

\* C37: whenever the loop enters the night, the day or the vote, at least one
\* werewolf lives and the living others outnumber the living werewolves; so
\* three players or more are alive, the werewolves have a target and every
\* voter has a legal vote target
C37_PhaseStartsUndecided ==
  [][((pc = "loop" /\ pc' = "werewolf") \/ (pc = "day" /\ pc' = "vote")
      \/ (pc = "vote" /\ pc' = "voting"))
     => /\ AliveWerewolves >= 1
        /\ AliveGood > AliveWerewolves
        /\ Cardinality(AliveIds) >= 3
        /\ {p \in Ids : alive[p] /\ role[p] /= WEREWOLF} /= {}
        /\ \A v \in AliveIds : VoteTargets(v) /= {}]_vars

\* the second night begins with the narrowest margin: three werewolves
\* against four
C37_Witness ==
  /\ pc = "werewolf"
  /\ current_round = 2
  /\ night_actions = NightActions
  /\ AliveWerewolves = 3
  /\ AliveGood = 4
  /\ ~game_over

\* C38: the witch uses one potion a night at most: no night's record holds
\* both a save and a poison, no step clears both potion flags, and when the
\* decision she returned asks for a save and a poison, the save is applied and
\* the poison is neither recorded nor used up
C38_OnePotionPerNight ==
  /\ [](/\ ~(night_actions.witch_save /= None /\ night_actions.witch_poison /= None)
        /\ gs_night_actions /= << >> =>
             ~(gs_night_actions[1].witch_save /= None /\ gs_night_actions[1].witch_poison /= None))
  /\ [][/\ ~(has_antidote /\ ~has_antidote' /\ has_poison /\ ~has_poison')
        /\ (/\ pc = "witch"
            /\ witch_action' /= << >>
            /\ witch_action'[1].save
            /\ witch_action'[1].poison /= None)
             => /\ night_actions'.witch_save = night_actions.werewolf_kill
                /\ night_actions'.witch_save /= None
                /\ ~has_antidote'
                /\ night_actions'.witch_poison = None
                /\ has_poison' = has_poison
                /\ used_poison_night' = used_poison_night]_vars

\* the witch asked for a save and a poison: the save is recorded, the poison
\* is still hers
C38_Witness ==
  /\ pc = "resolve"
  /\ witch_action /= << >>
  /\ witch_action[1].save
  /\ witch_action[1].poison /= None
  /\ night_actions.witch_save /= None
  /\ night_actions.witch_poison = None
  /\ ~has_antidote
  /\ has_poison

\* some player with role r is alive
Lives(r) == \E p \in Ids : alive[p] /\ role[p] = r

\* C39: the dead do not act: nobody dies while the night's decisions are
\* taken, so a player the night kills has still acted in it; a kill is chosen
\* only while a werewolf lives, a check is recorded only while the seer lives,
\* a potion is recorded or used up only while the witch lives, and a vote is
\* cast only by a living player
C39_DeadNeverAct ==
  [][/\ pc \in {"werewolf", "seer", "witch"} => alive' = alive
     /\ (night_actions'.werewolf_kill /= None
          /\ night_actions'.werewolf_kill /= night_actions.werewolf_kill)
          => Lives(WEREWOLF)
     /\ ((night_actions'.seer_check /= None
           /\ night_actions'.seer_check /= night_actions.seer_check)
          \/ seer_results' /= seer_results)
          => Lives(SEER)
     /\ ((night_actions'.witch_save /= None
           /\ night_actions'.witch_save /= night_actions.witch_save)
          \/ (night_actions'.witch_poison /= None
              /\ night_actions'.witch_poison /= night_actions.witch_poison)
          \/ has_antidote' /= has_antidote
          \/ has_poison' /= has_poison)
          => Lives(WITCH)
     /\ (pc = "voting" /\ vote_counts' /= vote_counts)
          => \E v \in Ids :
               /\ alive[v]
               /\ Cardinality({p \in Ids : alive[p] /\ p < v}) = voter_idx - 1]_vars

\* the witch was killed in the second night and her poison of that same night
\* is on the record
C39_Witness ==
  /\ pc \in {"day", "done"}
  /\ current_round = 2
  /\ gs_night_actions /= << >>
  /\ \E w \in Ids :
       /\ role[w] = WITCH
       /\ ~alive[w]
       /\ gs_night_actions[1].werewolf_kill = w
       /\ gs_night_actions[1].witch_poison /= None
       /\ used_poison_night = 2
       /\ history[Len(history)].round = 2

\* C40: with no winner stored the two evaluators agree: on any alive flags
\* over the assigned roles, what check_victory_conditions returned is what
\* check_winner computes on the same players, and what check_winner returned
\* is what check_victory_conditions computes
C40_EvaluatorsAgree ==
  /\ (pc = "check_victory_conditions" /\ winner = NoCamp)
       => returned = check_winner(NoCamp, role, alive)
  /\ (pc = "check_winner" /\ winner = NoCamp)
       => returned = check_victory_conditions(role, alive)

\* the manager's evaluator has answered Werewolf camp for three living
\* werewolves and three living others, with no winner stored
C40_Witness ==
  /\ pc = "check_victory_conditions"
  /\ winner = NoCamp
  /\ AliveWerewolves = 3
  /\ AliveGood = 3
  /\ returned = CampWerewolf
  /\ check_winner(NoCamp, role, alive) = CampWerewolf

====
